---- MODULE Spec2Model ----
(***************************************************************************)
(* Model of the Merrell graph-grammar core of kiwidave72/Mythos:           *)
(*   lib/grammar-core/MerrellGraph.{h,cpp}   half-edge graph, boundary     *)
(*                                            strings                      *)
(*   lib/grammar-core/MerrellGrammar.{h,cpp} loadFromTiles, hierarchy      *)
(*                                            construction (loop gluing),  *)
(*                                            rule extraction, generation  *)
(*                                                                         *)
(* Angles: every theta the code produces is gridDirToTheta(d) or such a    *)
(* value plus pi, i.e. a multiple of pi/2.  theta is kept as the number of *)
(* quarter turns (0..3); the epsilon tests of the code (1e-5 on the cross  *)
(* product, 1e-4 on the theta difference) separate these values exactly.   *)
(* Null pointers returned by the linear-scan accessors are index 0.        *)
(***************************************************************************)
EXTENDS Integers, Sequences, FiniteSets, TLC

\* ------------------------------------------------------------------
\* Generic sequence helpers
\* ------------------------------------------------------------------

Range(s) == { s[i] : i \in DOMAIN s }

\* Position of the first element of s whose id is `id`, 0 when there is none
\* (the linear scans of MerrellGraph::vertex / halfEdge / face).
minOrZero(hits) ==
    IF hits = {} THEN 0 ELSE CHOOSE j \in hits : \A k \in hits : j <= k

FirstIdx(s, id, i) == minOrZero({ j \in i..Len(s) : s[j].id = id })

Abs(x) == IF x < 0 THEN -x ELSE x

\* ------------------------------------------------------------------
\* MerrellGraph: data
\* ------------------------------------------------------------------

EmptyGraph ==
    [ vertices |-> << >>, halfEdges |-> << >>, faces |-> << >>,
      m_nextVertexId |-> 0, m_nextHalfEdgeId |-> 0, m_nextFaceId |-> 0 ]

vertexIdx(G, id)   == FirstIdx(G.vertices, id, 1)
halfEdgeIdx(G, id) == FirstIdx(G.halfEdges, id, 1)
faceIdx(G, id)     == FirstIdx(G.faces, id, 1)

isEmptyGraph(G) == Len(G.vertices) = 0
faceCount(G)    == Len(G.faces)
edgeCount(G)    == Len(G.halfEdges) \div 2
vertexCount(G)  == Len(G.vertices)

\* grid direction -> theta, in quarter turns
gridDirToTheta(dir) ==
    IF dir = <<1, 0>> THEN 0
    ELSE IF dir = <<0, -1>> THEN 1
    ELSE IF dir = <<-1, 0>> THEN 2
    ELSE IF dir = <<0, 1>> THEN 3
    ELSE 0

\* ------------------------------------------------------------------
\* MerrellGraph: factory
\* ------------------------------------------------------------------

addVertex(G, pos) ==
    [ G EXCEPT !.vertices = Append(@, [ id |-> G.m_nextVertexId, pos |-> pos,
                                        outgoing_he |-> -1 ]),
               !.m_nextVertexId = @ + 1 ]

addFace(G, label) ==
    [ G EXCEPT !.faces = Append(@, [ id |-> G.m_nextFaceId, start_he |-> -1,
                                     label |-> label, degree |-> 0 ]),
               !.m_nextFaceId = @ + 1 ]

\* theta + pi, reduced by 2 pi when it reaches 2 pi
twinTheta(theta) == IF theta + 2 >= 4 THEN theta + 2 - 4 ELSE theta + 2

\* Both directions are created together; the id of the forward half-edge is
\* G.m_nextHalfEdgeId of the graph before the call.
addHalfEdgePair(G, v0, v1, label) ==
    LET heId   == G.m_nextHalfEdgeId
        twinId == heId + 1
        he   == [ id |-> heId, twin |-> twinId, next |-> -1, prev |-> -1,
                  vertex |-> v0, face |-> -1, label |-> label ]
        twin == [ id |-> twinId, twin |-> heId, next |-> -1, prev |-> -1,
                  vertex |-> v1, face |-> -1,
                  label |-> [ l |-> label.r, r |-> label.l,
                              theta |-> twinTheta(label.theta) ] ]
    IN [ G EXCEPT !.halfEdges = Append(Append(@, he), twin),
                  !.m_nextHalfEdgeId = @ + 2 ]

\* first loop of linkFaceLoop: next / prev / face of heIds[i]
RECURSIVE linkLoopWire(_, _, _, _)
linkLoopWire(G, faceId, heIds, i) ==
    IF i > Len(heIds) THEN G
    ELSE
        LET n   == Len(heIds)
            he  == halfEdgeIdx(G, heIds[i])
            nxt == halfEdgeIdx(G, heIds[(i % n) + 1])
            prv == halfEdgeIdx(G, heIds[((i + n - 2) % n) + 1])
            G1  == IF he = 0 \/ nxt = 0 \/ prv = 0 THEN G
                   ELSE [ G EXCEPT !.halfEdges[he].next = G.halfEdges[nxt].id,
                                   !.halfEdges[he].prev = G.halfEdges[prv].id,
                                   !.halfEdges[he].face = faceId ]
        IN linkLoopWire(G1, faceId, heIds, i + 1)

\* last loop of linkFaceLoop: back-fill outgoing_he of the start vertices
RECURSIVE linkLoopOutgoing(_, _, _)
linkLoopOutgoing(G, heIds, i) ==
    IF i > Len(heIds) THEN G
    ELSE
        LET he == halfEdgeIdx(G, heIds[i])
            v  == IF he = 0 THEN 0 ELSE vertexIdx(G, G.halfEdges[he].vertex)
            G1 == IF v # 0 /\ G.vertices[v].outgoing_he = -1
                  THEN [ G EXCEPT !.vertices[v].outgoing_he = heIds[i] ]
                  ELSE G
        IN linkLoopOutgoing(G1, heIds, i + 1)

linkFaceLoop(G, faceId, heIds) ==
    IF Len(heIds) = 0 THEN G
    ELSE
        LET f == faceIdx(G, faceId)
        IN IF f = 0 THEN G
           ELSE
               LET G1 == linkLoopWire(G, faceId, heIds, 1)
                   G2 == [ G1 EXCEPT !.faces[f].start_he = heIds[1],
                                     !.faces[f].degree = Len(heIds) ]
               IN linkLoopOutgoing(G2, heIds, 1)

\* ------------------------------------------------------------------
\* MerrellGraph: gluing helpers
\* ------------------------------------------------------------------

mergeVertices(G, fromId, toId) ==
    IF fromId = toId THEN G
    ELSE [ G EXCEPT
             !.halfEdges = [ i \in DOMAIN @ |->
                               IF @[i].vertex = fromId
                               THEN [ @[i] EXCEPT !.vertex = toId ]
                               ELSE @[i] ],
             !.vertices = SelectSeq(@, LAMBDA v : v.id # fromId) ]

\* the `patch` lambda of removeHalfEdgePair
patch(G, id) ==
    LET h == halfEdgeIdx(G, id)
    IN IF h = 0 THEN G
       ELSE
           LET prevId == G.halfEdges[h].prev
               nextId == G.halfEdges[h].next
               prev == IF prevId >= 0 THEN halfEdgeIdx(G, prevId) ELSE 0
               next == IF nextId >= 0 THEN halfEdgeIdx(G, nextId) ELSE 0
               G1 == IF prev # 0 /\ G.halfEdges[prev].next = id
                     THEN [ G EXCEPT !.halfEdges[prev].next = nextId ]
                     ELSE G
               G2 == IF next # 0 /\ G1.halfEdges[next].prev = id
                     THEN [ G1 EXCEPT !.halfEdges[next].prev = prevId ]
                     ELSE G1
           IN [ G2 EXCEPT
                  !.faces = [ i \in DOMAIN @ |->
                                IF @[i].start_he = id
                                THEN [ @[i] EXCEPT !.start_he =
                                         IF nextId # id THEN nextId ELSE -1 ]
                                ELSE @[i] ] ]

removeHalfEdgePair(G, heId) ==
    LET he == halfEdgeIdx(G, heId)
    IN IF he = 0 THEN G
       ELSE
           LET twinId == G.halfEdges[he].twin
               G1 == patch(G, heId)
               G2 == IF twinId # -1 THEN patch(G1, twinId) ELSE G1
           IN [ G2 EXCEPT !.halfEdges =
                  SelectSeq(@, LAMBDA h : ~(h.id = heId \/ h.id = twinId)) ]

\* ------------------------------------------------------------------
\* BoundaryString
\* ------------------------------------------------------------------

EdgeElem(id, label) ==
    [ is_turn |-> FALSE, edge_id |-> id, edge_label |-> label, turn_type |-> "Positive" ]

TurnElem(tt) ==
    [ is_turn |-> TRUE, edge_id |-> -1, edge_label |-> "", turn_type |-> tt ]

RECURSIVE totalTurnCountFrom(_, _)
totalTurnCountFrom(bs, i) ==
    IF i > Len(bs) THEN 0
    ELSE (IF bs[i].is_turn
          THEN (IF bs[i].turn_type = "Positive" THEN 1 ELSE -1)
          ELSE 0) + totalTurnCountFrom(bs, i + 1)

totalTurnCount(bs) == totalTurnCountFrom(bs, 1)

\* a completeness test that accepts any turn surplus of two or more
isCompleteHalfWay(bs) == Abs(totalTurnCount(bs)) >= 2

isComplete(bs) == Abs(totalTurnCount(bs)) = 4

\* elemEqual comparing the labels of two edges in place of their ids
elemEqualByLabel(a, b) ==
    IF a.is_turn # b.is_turn THEN FALSE
    ELSE IF a.is_turn THEN a.turn_type = b.turn_type
    ELSE a.edge_label = b.edge_label

\* the elemEqual lambda of isCircularlyEqual
elemEqual(a, b) ==
    IF a.is_turn # b.is_turn THEN FALSE
    ELSE IF a.is_turn THEN a.turn_type = b.turn_type
    ELSE a.edge_id = b.edge_id

isCircularlyEqual(this, other) ==
    IF Len(this) # Len(other) THEN FALSE
    ELSE IF Len(this) = 0 THEN TRUE
    ELSE LET n == Len(this)
         IN \E offset \in 0..(n - 1) :
               \A i \in 0..(n - 1) :
                  elemEqual(this[((i + offset) % n) + 1], other[i + 1])

rotated(bs, offset) ==
    IF Len(bs) = 0 THEN << >>
    ELSE LET n == Len(bs)
         IN [ i \in 1..n |-> bs[((i - 1 + offset) % n) + 1] ]

oppositeTurns(a, b) == a.is_turn /\ b.is_turn /\ a.turn_type # b.turn_type

\* inner for-loop of cancelTurns, 0-based i; yields <<elements, changed>>
RECURSIVE cancelScan(_, _, _)
cancelScan(els, i, changed) ==
    IF ~(i + 1 < Len(els)) THEN << els, changed >>
    ELSE IF oppositeTurns(els[i + 1], els[i + 2])
         THEN cancelScan(SubSeq(els, 1, i) \o SubSeq(els, i + 3, Len(els)), i, TRUE)
         ELSE cancelScan(els, i + 1, changed)

\* a cancelTurns pass without the wrap-around check
cancelWrapNever(els, changed) == << els, changed >>

\* wrap-around check of cancelTurns; yields <<elements, changed>>
cancelWrap(els, changed) ==
    IF Len(els) >= 2 /\ oppositeTurns(els[Len(els)], els[1])
    THEN << SubSeq(els, 2, Len(els) - 1), TRUE >>
    ELSE << els, changed >>

RECURSIVE cancelTurns(_)
cancelTurns(els) ==
    LET r1 == cancelScan(els, 0, FALSE)
        r2 == cancelWrap(r1[1], r1[2])
    IN IF r2[2] THEN cancelTurns(r2[1]) ELSE r2[1]

\* the type character toString prints in front of an edge id
typeChar(label) ==
    IF label = "open" THEN "O"
    ELSE IF label = "exterior" THEN "X"
    ELSE IF label = "glued" THEN "G"
    ELSE "?"

\* toString: the printed string, as its sequence of tokens.  A token is a turn
\* glyph or a type character followed by the decimal edge id; every token
\* starts with a non-digit, so two strings are equal exactly when their token
\* sequences are.
toString(bs) ==
    [ i \in DOMAIN bs |->
        IF bs[i].is_turn
        THEN << (IF bs[i].turn_type = "Positive" THEN "^" ELSE "v"), 0 >>
        ELSE << typeChar(bs[i].edge_label), bs[i].edge_id >> ]

\* a turn taken with the sign of the cross product the other way round
turnBetweenMirrored(t0, t1) ==
    IF (t1 - t0 + 4) % 4 = 1 THEN << TurnElem("Negative") >>
    ELSE IF (t1 - t0 + 4) % 4 = 3 THEN << TurnElem("Positive") >>
    ELSE << >>

\* the turn element (if any) pushed between two consecutive half-edges.  The
\* cross product cos(t0) sin(t1) - sin(t0) cos(t1) is sin(t1 - t0): beyond the
\* 1e-5 dead zone it is positive for a quarter turn forward, negative for a
\* quarter turn back, and inside it for parallel and anti-parallel directions
turnBetween(t0, t1) ==
    IF (t1 - t0 + 4) % 4 = 1 THEN << TurnElem("Positive") >>
    ELSE IF (t1 - t0 + 4) % 4 = 3 THEN << TurnElem("Negative") >>
    ELSE << >>

\* ------------------------------------------------------------------
\* MerrellGraph: boundary
\* ------------------------------------------------------------------

\* do-while of boundaryOf collecting the loop (positions in G.halfEdges)
RECURSIVE faceLoopFrom(_, _, _, _, _)
faceLoopFrom(G, start, cur, safety, acc) ==
    LET he == halfEdgeIdx(G, cur)
    IN IF he = 0 \/ safety + 1 > 1000 THEN acc
       ELSE LET acc1 == Append(acc, he)
                nxt  == G.halfEdges[he].next
            IN IF nxt # start THEN faceLoopFrom(G, start, nxt, safety + 1, acc1)
               ELSE acc1

\* for-loop of boundaryOf over the collected loop: the edge element of
\* loop[i] and the turn towards loop[(i + 1) % n]
RECURSIVE loopElements(_, _, _)
loopElements(G, loop, i) ==
    IF i > Len(loop) THEN << >>
    ELSE << EdgeElem(G.halfEdges[loop[i]].id, G.halfEdges[loop[i]].label.r) >>
         \o turnBetween(G.halfEdges[loop[i]].label.theta,
                        G.halfEdges[loop[(i % Len(loop)) + 1]].label.theta)
         \o loopElements(G, loop, i + 1)

boundaryOf(G, faceId) ==
    LET f == faceIdx(G, faceId)
    IN IF f = 0 THEN << >>
       ELSE IF G.faces[f].start_he = -1 THEN << >>
       ELSE loopElements(G, faceLoopFrom(G, G.faces[f].start_he,
                                         G.faces[f].start_he, 0, << >>), 1)

isBoundaryHE(G, heId) ==
    LET he == halfEdgeIdx(G, heId)
    IN IF he = 0 THEN FALSE
       ELSE IF G.halfEdges[he].twin = -1 THEN TRUE
       ELSE LET tw == halfEdgeIdx(G, G.halfEdges[he].twin)
            IN tw # 0 /\ G.halfEdges[tw].face = -1

endVertOf(G, heId) ==
    LET he == halfEdgeIdx(G, heId)
    IN IF he = 0 THEN -1
       ELSE IF G.halfEdges[he].twin = -1 THEN -1
       ELSE LET tw == halfEdgeIdx(G, G.halfEdges[he].twin)
            IN IF tw # 0 THEN G.halfEdges[tw].vertex ELSE -1

\* ids of the half-edges of G, in storage order
heIdsOf(G) == [ i \in DOMAIN G.halfEdges |-> G.halfEdges[i].id ]

\* vertToBoundaryHEs[v]: the boundary ids whose half-edge starts at v
boundaryHEsAt(G, boundaryIds, v) ==
    SelectSeq(boundaryIds,
              LAMBDA id : LET he == halfEdgeIdx(G, id)
                          IN he # 0 /\ G.halfEdges[he].vertex = v)

\* first candidate that is neither the twin of the current edge nor visited
RECURSIVE pickNext(_, _, _, _, _)
pickNext(cands, i, twinId, visited, startId) ==
    IF i > Len(cands) THEN -1
    ELSE IF cands[i] = twinId THEN pickNext(cands, i + 1, twinId, visited, startId)
    ELSE IF cands[i] \in visited /\ cands[i] # startId
         THEN pickNext(cands, i + 1, twinId, visited, startId)
    ELSE cands[i]

\* the turn pushed after the current edge when the next half-edge exists
turnTowards(G, theta, nextHe) ==
    IF nextHe # 0 THEN turnBetween(theta, G.halfEdges[nextHe].label.theta)
    ELSE << >>

\* do-while of outerBoundary.  outerPick is its body from the choice of the
\* next edge on: h is the current half-edge, cands the boundary half-edges
\* leaving its end vertex (none when it has no end vertex); outerAdvance is
\* the part after the choice
RECURSIVE outerWalk(_, _, _, _, _, _, _, _)
outerAdvance(G, boundaryIds, startId, safety, maxLen, visited, bs, theta, nextId) ==
    IF nextId = -1 THEN bs
    ELSE IF nextId = startId
         THEN bs \o turnTowards(G, theta, halfEdgeIdx(G, nextId))
    ELSE outerWalk(G, boundaryIds, startId, nextId, safety + 1, maxLen, visited,
                   bs \o turnTowards(G, theta, halfEdgeIdx(G, nextId)))

outerPick(G, boundaryIds, startId, safety, maxLen, visited, bs, h, cands) ==
    IF Len(cands) = 0 THEN bs
    ELSE outerAdvance(G, boundaryIds, startId, safety, maxLen, visited, bs,
                      h.label.theta, pickNext(cands, 1, h.twin, visited, startId))

outerWalk(G, boundaryIds, startId, curId, safety, maxLen, visited, bs) ==
    IF curId \in visited THEN bs
    ELSE IF halfEdgeIdx(G, curId) = 0 \/ safety + 1 > maxLen THEN bs
    ELSE outerPick(G, boundaryIds, startId, safety, maxLen,
                   visited \cup { curId },
                   Append(bs, EdgeElem(curId, G.halfEdges[halfEdgeIdx(G, curId)].label.r)),
                   G.halfEdges[halfEdgeIdx(G, curId)],
                   IF endVertOf(G, curId) = -1 THEN << >>
                   ELSE boundaryHEsAt(G, boundaryIds, endVertOf(G, curId)))

\* outerBoundary once the boundary half-edges are collected
outerBoundaryOver(G, boundaryIds) ==
    IF Len(boundaryIds) = 0 THEN << >>
    ELSE outerWalk(G, boundaryIds, boundaryIds[1], boundaryIds[1], 0,
                   Len(boundaryIds) * 2 + 4, {}, << >>)

outerBoundary(G) ==
    outerBoundaryOver(G, SelectSeq(heIdsOf(G), LAMBDA id : isBoundaryHE(G, id)))

\* ------------------------------------------------------------------
\* MG-1: disassembly (body of the for-loop of loadFromTiles)
\* ------------------------------------------------------------------

\* the four edges of the unit square: from, to, faceDir, travelDir
squareEdges(v0, v1, v2, v3) ==
    << [ from |-> v0, to |-> v1, faceDir |-> <<0, -1>>, travelDir |-> <<1, 0>> ],
       [ from |-> v1, to |-> v2, faceDir |-> <<1, 0>>,  travelDir |-> <<0, 1>> ],
       [ from |-> v2, to |-> v3, faceDir |-> <<0, 1>>,  travelDir |-> <<-1, 0>> ],
       [ from |-> v3, to |-> v0, faceDir |-> <<-1, 0>>, travelDir |-> <<0, -1>> ] >>

\* a label that tests the edge against the first socket only
edgeLabelOfFirstSocket(def, e) ==
    [ l |-> def.label,
      r |-> IF Len(def.sockets) > 0 /\ e.faceDir = def.sockets[1] THEN "open" ELSE "exterior",
      theta |-> gridDirToTheta(e.travelDir) ]

\* label of the forward half-edge of one square edge
edgeLabelOf(def, e) ==
    [ l |-> def.label,
      r |-> IF e.faceDir \in Range(def.sockets) THEN "open" ELSE "exterior",
      theta |-> gridDirToTheta(e.travelDir) ]

RECURSIVE addSquareEdges(_, _, _, _, _)
addSquareEdges(G, def, edges, i, loop) ==
    IF i > Len(edges) THEN << G, loop >>
    ELSE addSquareEdges(addHalfEdgePair(G, edges[i].from, edges[i].to,
                                        edgeLabelOf(def, edges[i])),
                        def, edges, i + 1, Append(loop, G.m_nextHalfEdgeId))

buildPrimitive(def) ==
    LET G0 == addFace(EmptyGraph, def.label)
        faceId == EmptyGraph.m_nextFaceId
        G1 == addVertex(G0, <<0, 1>>)
        G2 == addVertex(G1, <<1, 1>>)
        G3 == addVertex(G2, <<1, 0>>)
        G4 == addVertex(G3, <<0, 0>>)
        r  == addSquareEdges(G4, def,
                             squareEdges(G0.m_nextVertexId, G1.m_nextVertexId,
                                         G2.m_nextVertexId, G3.m_nextVertexId),
                             1, << >>)
    IN linkFaceLoop(r[1], faceId, r[2])

\* ------------------------------------------------------------------
\* MG-2: loop gluing
\* ------------------------------------------------------------------

offsetId(x, off) == IF x >= 0 THEN x + off ELSE -1

\* copies of the elements of src with their ids shifted; posOff is the
\* translation loopGlue applies to B, <<0, 0>> in appendGraph
copyVertices(src, vertOff, heOff, posOff) ==
    [ i \in DOMAIN src.vertices |->
        LET v == src.vertices[i]
        IN [ id |-> v.id + vertOff,
             pos |-> << v.pos[1] + posOff[1], v.pos[2] + posOff[2] >>,
             outgoing_he |-> offsetId(v.outgoing_he, heOff) ] ]

copyHalfEdges(src, vertOff, heOff, faceOff) ==
    [ i \in DOMAIN src.halfEdges |->
        LET he == src.halfEdges[i]
        IN [ he EXCEPT !.id = he.id + heOff,
                       !.twin = offsetId(he.twin, heOff),
                       !.next = offsetId(he.next, heOff),
                       !.prev = offsetId(he.prev, heOff),
                       !.vertex = he.vertex + vertOff,
                       !.face = offsetId(he.face, faceOff) ] ]

copyFaces(src, heOff, faceOff) ==
    [ i \in DOMAIN src.faces |->
        LET f == src.faces[i]
        IN [ f EXCEPT !.id = f.id + faceOff,
                      !.start_he = offsetId(f.start_he, heOff) ] ]

appendGraph(dst, src, vertOff, heOff, faceOff) ==
    [ dst EXCEPT !.vertices  = @ \o copyVertices(src, vertOff, heOff, <<0, 0>>),
                 !.halfEdges = @ \o copyHalfEdges(src, vertOff, heOff, faceOff),
                 !.faces     = @ \o copyFaces(src, heOff, faceOff) ]

\* the half-edge `id` names, for an id whose lookup succeeds
heOf(G, id) == G.halfEdges[halfEdgeIdx(G, id)]

\* the three copy loops of the translated append, for a given offset
appendOffset(res, B, vertOff, heOff, faceOff, offset) ==
    [ res EXCEPT !.vertices  = @ \o copyVertices(B, vertOff, heOff, offset),
                 !.halfEdges = @ \o copyHalfEdges(B, vertOff, heOff, faceOff),
                 !.faces     = @ \o copyFaces(B, heOff, faceOff) ]

\* the append of B once vA_end and vB_start are looked up (positions in
\* A.vertices and B.vertices, 0 for a lookup that failed or was not reached)
appendAtVertices(res, A, B, vA_end, vB_start) ==
    IF vA_end # 0 /\ vB_start # 0
    THEN appendOffset(res, B, Len(A.vertices), Len(A.halfEdges), Len(A.faces),
                      << A.vertices[vA_end].pos[1] - B.vertices[vB_start].pos[1],
                         A.vertices[vA_end].pos[2] - B.vertices[vB_start].pos[2] >>)
    ELSE appendGraph(res, B, Len(A.vertices), Len(A.halfEdges), Len(A.faces))

\* the translated append of B (the block ending in `goto vertices_appended`),
\* or the fallback appendGraph when one of the lookups fails
appendTranslatedB(res, A, B, heA_localId, heB_localId) ==
    IF halfEdgeIdx(A, heA_localId) # 0 /\ halfEdgeIdx(B, heB_localId) # 0
    THEN appendAtVertices(res, A, B,
                          IF halfEdgeIdx(A, heOf(A, heA_localId).twin) # 0
                          THEN vertexIdx(A, heOf(A, heOf(A, heA_localId).twin).vertex)
                          ELSE 0,
                          vertexIdx(B, heOf(B, heB_localId).vertex))
    ELSE appendGraph(res, B, Len(A.vertices), Len(A.halfEdges), Len(A.faces))

\* a weld that merges one end of the seam only
weldSeamOnce(G, v0_a, v1_a, v0_b, v1_b) ==
    mergeVertices(G, v0_b, v1_a)

\* the two mergeVertices calls of loopGlue
weldSeam(G, v0_a, v1_a, v0_b, v1_b) ==
    mergeVertices(mergeVertices(G, v0_b, v1_a), v1_b, v0_a)

\* (id >= 0) ? result.halfEdge(id) : nullptr
ptrOf(G, id) == IF id >= 0 THEN halfEdgeIdx(G, id) ELSE 0

\* if (x_prev && y_next) { x_prev->next = y_next_id; y_next->prev = x_prev_id; }
crossLink(G, prev_id, next_id) ==
    IF ptrOf(G, prev_id) # 0 /\ ptrOf(G, next_id) # 0
    THEN [ G EXCEPT !.halfEdges[ptrOf(G, prev_id)].next = next_id,
                    !.halfEdges[ptrOf(G, next_id)].prev = prev_id ]
    ELSE G

\* one face of the start_he fix: a start_he that is he moves on to next_id
fixStartHe(f, he, next_id) ==
    IF f.start_he = he
    THEN [ f EXCEPT !.start_he = IF next_id >= 0 THEN next_id ELSE -1 ]
    ELSE f

\* the stitch for the prev / next ids read off a and b before any link is
\* rewritten: the two cross-links, then the start_he fix over all faces
stitchLoops(G, heA, heB, a_prev_id, a_next_id, b_prev_id, b_next_id) ==
    [ crossLink(crossLink(G, a_prev_id, b_next_id), b_prev_id, a_next_id)
        EXCEPT !.faces =
          [ i \in DOMAIN @ |->
              fixStartHe(fixStartHe(@[i], heA, a_next_id), heB, b_next_id) ] ]

\* cross-link of the two face loops and the start_he fix
stitchSeam(G, heA, heB) ==
    stitchLoops(G, heA, heB, heOf(G, heA).prev, heOf(G, heA).next,
                heOf(G, heB).prev, heOf(G, heB).next)

\* a re-twinning that leaves b_twin pointing at its old twin
retwinSeamOneWay(G, heA, heB, heA_twin, heB_twin) ==
    [ G EXCEPT !.halfEdges[halfEdgeIdx(G, heA)].twin = heB,
               !.halfEdges[halfEdgeIdx(G, heB)].twin = heA,
               !.halfEdges[halfEdgeIdx(G, heA_twin)].twin = heB_twin ]

\* a <-> b and a_twin <-> b_twin
retwinSeam(G, heA, heB, heA_twin, heB_twin) ==
    [ G EXCEPT !.halfEdges[halfEdgeIdx(G, heA)].twin = heB,
               !.halfEdges[halfEdgeIdx(G, heB)].twin = heA,
               !.halfEdges[halfEdgeIdx(G, heA_twin)].twin = heB_twin,
               !.halfEdges[halfEdgeIdx(G, heB_twin)].twin = heA_twin ]

\* label.r = "glued" on the four seam half-edges
relabelSeam(G, heA, heB, heA_twin, heB_twin) ==
    [ G EXCEPT !.halfEdges[halfEdgeIdx(G, heA)].label.r = "glued",
               !.halfEdges[halfEdgeIdx(G, heB)].label.r = "glued",
               !.halfEdges[halfEdgeIdx(G, heA_twin)].label.r = "glued",
               !.halfEdges[halfEdgeIdx(G, heB_twin)].label.r = "glued" ]

\* if (twin->face == -1) twin->face = other->face;
assignFace(G, twinId, otherId) ==
    IF heOf(G, twinId).face = -1
    THEN [ G EXCEPT !.halfEdges[halfEdgeIdx(G, twinId)].face = heOf(G, otherId).face ]
    ELSE G

\* a glue that leaves the former exterior twins without a face
assignSeamFacesNone(G, heA, heB, heA_twin, heB_twin) == G

\* face ids of the former exterior twins of the seam
assignSeamFaces(G, heA, heB, heA_twin, heB_twin) ==
    assignFace(assignFace(G, heA_twin, heB), heB_twin, heA)

\* loopGlue after the weld: the re-fetch of the four pointers, then the
\* stitch, re-twin, re-label and face assignment
glueWelded(R2, heA, heB, heA_twin, heB_twin) ==
    IF halfEdgeIdx(R2, heA) = 0 \/ halfEdgeIdx(R2, heB) = 0
       \/ halfEdgeIdx(R2, heA_twin) = 0 \/ halfEdgeIdx(R2, heB_twin) = 0
    THEN [ ok |-> FALSE, graph |-> R2 ]
    ELSE [ ok |-> TRUE,
           graph |-> assignSeamFaces(
                       relabelSeam(
                         retwinSeam(stitchSeam(R2, heA, heB),
                                    heA, heB, heA_twin, heB_twin),
                         heA, heB, heA_twin, heB_twin),
                       heA, heB, heA_twin, heB_twin) ]

\* loopGlue once a and b are found: the twins and the weld of their vertices
glueSeam(R1, heA, heB, heA_twin, heB_twin) ==
    IF halfEdgeIdx(R1, heA_twin) = 0 \/ halfEdgeIdx(R1, heB_twin) = 0
    THEN [ ok |-> FALSE, graph |-> R1 ]
    ELSE glueWelded(weldSeam(R1, heOf(R1, heA).vertex, heOf(R1, heA_twin).vertex,
                             heOf(R1, heB).vertex, heOf(R1, heB_twin).vertex),
                    heA, heB, heA_twin, heB_twin)

\* loopGlue on `result` holding A and the copy of B
glueAppended(R1, heA, heB) ==
    IF halfEdgeIdx(R1, heA) = 0 \/ halfEdgeIdx(R1, heB) = 0
    THEN [ ok |-> FALSE, graph |-> R1 ]
    ELSE glueSeam(R1, heA, heB, heOf(R1, heA).twin, heOf(R1, heB).twin)

\* loopGlue: [ok, graph]; graph is `result` as the call leaves it
loopGlue(A, B, heA_localId, heB_localId) ==
    glueAppended(appendTranslatedB(appendGraph(EmptyGraph, A, 0, 0, 0),
                                   A, B, heA_localId, heB_localId),
                 heA_localId, heB_localId + Len(A.halfEdges))

\* ------------------------------------------------------------------
\* Bounds of the model and the inputs drawn from them
\* ------------------------------------------------------------------

MaxTiles == 2      \* longest tile vocabulary passed to loadFromTiles
MaxGen   == 2      \* largest settings.maxHierarchyGen
MaxCap   == 2      \* largest settings.maxRules
MaxIter  == 2      \* largest settings.maxIterations
MaxSockets == 4    \* most sockets listed by one tile definition

HStraight == [ label |-> "HStraight", sockets |-> << <<-1, 0>>, <<1, 0>> >> ]
CornerBR  == [ label |-> "CornerBR",  sockets |-> << <<1, 0>>, <<0, 1>> >> ]

\* a second tile type with the socket layout of HStraight
HBridge == [ HStraight EXCEPT !.label = "HBridge" ]

TileDefs == { HStraight, CornerBR }

RECURSIVE SeqsUpTo(_, _)
SeqsUpTo(S, n) ==
    IF n = 0 THEN { << >> }
    ELSE LET shorter == SeqsUpTo(S, n - 1)
         IN shorter \cup { Append(q, x) : q \in { r \in shorter : Len(r) = n - 1 }, x \in S }

\* every vocabulary over TileDefs, and one whose two tile types share a layout
Vocabularies == SeqsUpTo(TileDefs, MaxTiles) \cup { << HStraight, HBridge >> }

\* the four grid directions a socket can point in
GridDirs == { << 1, 0 >>, << 0, -1 >>, << -1, 0 >>, << 0, 1 >> }

\* tile definitions with up to MaxSockets sockets, a direction possibly listed twice
LayoutDefs == { [ label |-> "Tile", sockets |-> q ] : q \in SeqsUpTo(GridDirs, MaxSockets) }

SettingsSet ==
    [ maxIterations : 0..MaxIter, maxHierarchyGen : 0..MaxGen, maxRules : 0..MaxCap ]

\* ------------------------------------------------------------------
\* State of one MerrellGrammar controller
\* ------------------------------------------------------------------

VARIABLES
    m_settings,     \* GrammarSettings (the three bounds the core reads)
    m_primitives,   \* std::vector<MerrellGraph>
    m_hierarchy,    \* std::vector<HierarchyNode>
    hierCap,        \* capacity() of m_hierarchy's storage
    m_rules,        \* std::vector<DPORule>
    m_result,       \* GenerationResult
    m_lastError,    \* std::string
    m_genStep,      \* int
    m_genDone,      \* bool
    pc,             \* "idle", inside extractGrammar ("glue", "alg1"), or "crashed"
    tl,             \* locals of the running tryLoopGluings call
    prevRun,        \* hierarchy the previous build left for the same primitives
    g,              \* a MerrellGraph a caller holds and applies graph operations to
    gLog,           \* the operations applied to g so far
    bsA, bsB,       \* two BoundaryStrings a caller holds
    bsRet,          \* what the last BoundaryString call on them returned
    defs            \* the socket definitions a caller holds for loadFromTiles

ctrlVars == << m_settings, m_primitives, m_hierarchy, hierCap, m_rules, m_result,
               m_lastError, m_genStep, m_genDone, pc, tl, prevRun >>

auxVars == << g, gLog, bsA, bsB, bsRet, defs >>

EmptyResult ==
    [ graph |-> EmptyGraph, placed |-> << >>, success |-> FALSE, errorMsg |-> "" ]

NoLoop == [ generation |-> -1 ]

ErrNoSockets    == "loadFromTiles: no socket definitions provided."
ErrNoPrimitives == "No primitives. Call loadFromTiles() first."
ErrNoRules      == "No rules. Call extractGrammar() first."
ErrMaxIter      == "Max iterations reached."

\* ------------------------------------------------------------------
\* loadFromTiles
\* ------------------------------------------------------------------

\* the primitives of the controller's tile types, computed once
primitiveTable == [ def \in TileDefs \cup { HBridge } |-> buildPrimitive(def) ]

\* one primitive per socket definition, in input order
primitivesOf(socketDefs) ==
    [ i \in DOMAIN socketDefs |->
        IF socketDefs[i] \in DOMAIN primitiveTable
        THEN primitiveTable[socketDefs[i]]
        ELSE buildPrimitive(socketDefs[i]) ]

\* a loadFromTiles whose error path returns before m_primitives.clear()
LoadFromTilesKeep(socketDefs) ==
    /\ pc = "idle"
    /\ IF Len(socketDefs) = 0
       THEN /\ m_primitives' = m_primitives
            /\ m_lastError' = ErrNoSockets
       ELSE /\ m_primitives' = primitivesOf(socketDefs)
            /\ m_lastError' = ""
    /\ UNCHANGED << m_settings, m_hierarchy, hierCap, m_rules, m_result,
                    m_genStep, m_genDone, pc, tl, prevRun >>
    /\ UNCHANGED auxVars

LoadFromTiles(socketDefs) ==
    /\ pc = "idle"
    /\ IF Len(socketDefs) = 0
       THEN /\ m_primitives' = << >>
            /\ m_lastError' = ErrNoSockets
       ELSE /\ m_primitives' = primitivesOf(socketDefs)
            /\ m_lastError' = ""
    /\ UNCHANGED << m_settings, m_hierarchy, hierCap, m_rules, m_result,
                    m_genStep, m_genDone, pc, tl, prevRun >>
    /\ UNCHANGED auxVars

\* ------------------------------------------------------------------
\* buildHierarchy / tryLoopGluings
\* ------------------------------------------------------------------

\* capacity of a std::vector after push_back on `size` elements (storage
\* doubles when it is full)
capAfterPush(size, cap) ==
    IF size < cap THEN cap ELSE IF cap = 0 THEN 1 ELSE 2 * cap

\* push_back moves the elements to new storage exactly when the vector is full
pushReallocates(size, cap) == ~(size < cap)

nextHierarchyId(hier) == Len(hier)

\* a generation-0 node whose cached boundary starts one edge further on
primNodeRotated(hier, prim) ==
    LET b == IF Len(prim.faces) # 0
             THEN rotated(boundaryOf(prim, prim.faces[1].id), 2) ELSE << >>
    IN [ id |-> nextHierarchyId(hier), generation |-> 0, graph |-> prim,
         boundary |-> b, isComplete |-> isComplete(b), pruned |-> FALSE,
         parentIds |-> << >> ]

\* generation-0 node of buildHierarchy
primNode(hier, prim) ==
    LET b == IF Len(prim.faces) # 0 THEN boundaryOf(prim, prim.faces[1].id) ELSE << >>
    IN [ id |-> nextHierarchyId(hier), generation |-> 0, graph |-> prim,
         boundary |-> b, isComplete |-> isComplete(b), pruned |-> FALSE,
         parentIds |-> << >> ]

\* the gen-0 loop: <<hierarchy, capacity>> after seeding from prims[i..]
RECURSIVE seedPrimitives(_, _, _, _)
seedPrimitives(prims, i, hier, cap) ==
    IF i > Len(prims) THEN << hier, cap >>
    ELSE seedPrimitives(prims, i + 1, Append(hier, primNode(hier, prims[i])),
                        capAfterPush(Len(hier), cap))

\* ids of the half-edges of G with label.r = "open", in storage order
openHalfEdges(G) ==
    LET opens == SelectSeq(G.halfEdges, LAMBDA he : he.label.r = "open")
    IN [ i \in DOMAIN opens |-> opens[i].id ]

\* indices (0-based, as in the code) of the nodes of one generation
genNodesOf(hier, generation) ==
    SelectSeq([ i \in 1..Len(hier) |-> i - 1 ],
              LAMBDA i : hier[i + 1].generation = generation)

\* seenBoundaries as tryLoopGluings seeds it
seedSeen(hier) ==
    { toString(hier[i].boundary) : i \in { j \in DOMAIN hier : Len(hier[j].boundary) # 0 } }

\* the two for-loops over genNodes from position (pa, pb) on: the first pair
\* whose inner loops run, or done (end of the loops or `goto done`)
RECURSIVE seekPair(_, _, _, _, _, _)
seekPair(hier, genNodes, pa, pb, newNodes, maxNewNodes) ==
    IF pa > Len(genNodes) THEN [ done |-> TRUE ]
    ELSE IF pb > Len(genNodes)
         THEN seekPair(hier, genNodes, pa + 1, 1, newNodes, maxNewNodes)
    ELSE IF newNodes >= maxNewNodes THEN [ done |-> TRUE ]
    ELSE LET openA == openHalfEdges(hier[genNodes[pa] + 1].graph)
             openB == openHalfEdges(hier[genNodes[pb] + 1].graph)
         IN IF Len(openA) = 0 \/ Len(openB) = 0
            THEN seekPair(hier, genNodes, pa, pb + 1, newNodes, maxNewNodes)
            ELSE [ done |-> FALSE, pa |-> pa, pb |-> pb, openA |-> openA, openB |-> openB ]

\* node.boundary = b; node.isComplete = node.boundary.isComplete()
withBoundary(node, b) == [ node EXCEPT !.boundary = b, !.isComplete = isComplete(b) ]

\* the boundary b1 left by the first assignment, replaced by the face loop
\* when it is empty
boundaryOrFaceLoop(G, b1) ==
    IF Len(b1) = 0 /\ Len(G.faces) # 0 THEN boundaryOf(G, G.faces[1].id) ELSE b1

\* the boundary-caching loop that ends buildHierarchy
cacheBoundary(node) ==
    IF Len(node.boundary) = 0 /\ ~isEmptyGraph(node.graph)
    THEN withBoundary(node,
                      boundaryOrFaceLoop(node.graph,
                                         IF Len(node.graph.faces) # 0
                                         THEN outerBoundary(node.graph)
                                         ELSE node.boundary))
    ELSE node

\* locals of tryLoopGluings(generation) positioned on a found pair
loopAt(generation, genNodes, found, seen, newNodes) ==
    [ generation |-> generation, genNodes |-> genNodes,
      pa |-> found.pa, pb |-> found.pb, openA |-> found.openA, openB |-> found.openB,
      ia |-> 1, ib |-> 1, seenBoundaries |-> seen, newNodes |-> newNodes,
      ref |-> "valid" ]

\* the end of buildHierarchy: the boundary-caching loop, then Algorithm 1
finishBuild(hier) ==
    [ pc |-> "alg1", hier |-> [ i \in DOMAIN hier |-> cacheBoundary(hier[i]) ],
      tl |-> NoLoop ]

\* the for-loop of buildHierarchy entering iteration `gen`: either the first
\* candidate of tryLoopGluings(gen), or the end of buildHierarchy
enterGeneration(hier, gen, settings) ==
    IF ~(gen < settings.maxHierarchyGen) THEN finishBuild(hier)
    ELSE LET genNodes == genNodesOf(hier, gen)
             found == IF Len(genNodes) = 0 THEN [ done |-> TRUE ]
                      ELSE seekPair(hier, genNodes, 1, 1, 0, settings.maxRules)
         IN IF found.done
            THEN \* tryLoopGluings added nothing: anyNew is false, break
                 finishBuild(hier)
            ELSE [ pc |-> "glue", hier |-> hier,
                   tl |-> loopAt(gen, genNodes, found, seedSeen(hier), 0) ]

\* what follows one candidate (ia, ib) of the inner loops: the next candidate,
\* the next pair, the next generation or the end of buildHierarchy
afterCandidate(hier, t, settings) ==
    IF t.ib < Len(t.openB) THEN [ pc |-> "glue", hier |-> hier, tl |-> [ t EXCEPT !.ib = @ + 1 ] ]
    ELSE IF t.ia < Len(t.openA)
         THEN [ pc |-> "glue", hier |-> hier, tl |-> [ t EXCEPT !.ia = @ + 1, !.ib = 1 ] ]
    ELSE LET found == seekPair(hier, t.genNodes, t.pa, t.pb + 1, t.newNodes,
                               settings.maxRules)
         IN IF ~found.done
            THEN [ pc |-> "glue", hier |-> hier,
                   tl |-> loopAt(t.generation, t.genNodes, found, t.seenBoundaries,
                                 t.newNodes) ]
            ELSE IF \E i \in DOMAIN hier : hier[i].generation = t.generation + 1
                 THEN enterGeneration(hier, t.generation + 1, settings)
                 ELSE finishBuild(hier)

\* a test that lets every pair of thetas through
complementaryAny(thetaA, thetaB) == TRUE

\* thetas differ by pi (or 3 pi) within 1e-4
complementary(thetaA, thetaB) ==
    LET thetaDiff == Abs(thetaA - thetaB)
    IN thetaDiff = 2 \/ thetaDiff = 6

\* a lookup that never finds the string
alreadySeenNever(bsStr, seenBoundaries) == FALSE

\* seenBoundaries.count(bsStr) != 0
alreadySeen(bsStr, seenBoundaries) == bsStr \in seenBoundaries

\* boundary of a glued result as tryLoopGluings computes it
resultBoundary(result) == boundaryOrFaceLoop(result, outerBoundary(result))

\* a glued node filed under the generation of its parents
gluedNodeSameGen(hier, generation, result, bs, ai, bi) ==
    [ id |-> nextHierarchyId(hier), generation |-> generation, graph |-> result,
      boundary |-> bs, isComplete |-> isComplete(bs), pruned |-> FALSE,
      parentIds |-> << ai, bi >> ]

gluedNode(hier, generation, result, bs, ai, bi) ==
    [ id |-> nextHierarchyId(hier), generation |-> generation + 1, graph |-> result,
      boundary |-> bs, isComplete |-> isComplete(bs), pruned |-> FALSE,
      parentIds |-> << ai, bi >> ]

\* the candidate once the boundary bs of its glued graph is computed: the
\* duplicate test on its string
tryBoundary(hier, t, ai, bi, result, bs) ==
    IF alreadySeen(toString(bs), t.seenBoundaries) THEN [ added |-> FALSE ]
    ELSE [ added |-> TRUE, bsStr |-> toString(bs),
           node |-> gluedNode(hier, t.generation, result, bs, ai, bi) ]

\* the candidate once loopGlue returned r
tryResult(hier, t, ai, bi, r) ==
    IF ~r.ok THEN [ added |-> FALSE ]
    ELSE tryBoundary(hier, t, ai, bi, r.graph, resultBoundary(r.graph))

\* body of the innermost loop for the candidate (heA, heB) read through intact
\* references A and B: [added, node, bsStr]
tryCandidate(hier, t) ==
    LET ai == t.genNodes[t.pa]
        bi == t.genNodes[t.pb]
        A == hier[ai + 1].graph
        B == hier[bi + 1].graph
        heA == t.openA[t.ia]
        heB == t.openB[t.ib]
    IN IF halfEdgeIdx(A, heA) = 0 \/ halfEdgeIdx(B, heB) = 0 THEN [ added |-> FALSE ]
       ELSE IF ~complementary(heOf(A, heA).label.theta, heOf(B, heB).label.theta)
            THEN [ added |-> FALSE ]
       ELSE tryResult(hier, t, ai, bi, loopGlue(A, B, heA, heB))

\* summary of a hierarchy: id, generation, parentIds and canonical boundary
\* string of every node
hierarchySummary(hier) ==
    [ i \in DOMAIN hier |->
        [ id |-> hier[i].id, generation |-> hier[i].generation,
          parentIds |-> hier[i].parentIds, bnd |-> toString(hier[i].boundary) ] ]

gen0Graphs(hier) ==
    LET g0 == SelectSeq(hier, LAMBDA n : n.generation = 0)
    IN [ i \in DOMAIN g0 |-> g0[i].graph ]

\* ------------------------------------------------------------------
\* MG-3: rule extraction (Algorithm 1)
\* ------------------------------------------------------------------

EmptyMorphism ==
    [ vertexMap |-> [ x \in {} |-> 0 ], halfEdgeMap |-> [ x \in {} |-> 0 ],
      faceMap |-> [ x \in {} |-> 0 ] ]

mapInjective(m) == \A x, y \in DOMAIN m : m[x] = m[y] => x = y

isInjective(phi) ==
    mapInjective(phi.vertexMap) /\ mapInjective(phi.halfEdgeMap) /\ mapInjective(phi.faceMap)

isValid(rule) == ~isEmptyGraph(rule.L) /\ isInjective(rule.phi_L) /\ isInjective(rule.phi_R)

\* a rule counter that starts at one
nextRuleIdFromOne(rules) == Len(rules) + 1

nextRuleId(rules) == Len(rules)

buildInterfaceGraph(p0, p1, label) ==
    LET I0 == addVertex(EmptyGraph, p0)
        I1 == addVertex(I0, p1)
    IN addHalfEdgePair(I1, EmptyGraph.m_nextVertexId, I0.m_nextVertexId, label)

\* a starter rule that takes the node's graph for R as well
buildStarterRuleWithR(ruleId, node) ==
    [ id |-> ruleId, kind |-> "Starter",
      name |-> << "starter_", IF Len(node.graph.faces) = 0 THEN "prim"
                              ELSE node.graph.faces[1].label >>,
      isStarterRule |-> TRUE, extractedAtGeneration |-> 0,
      L |-> node.graph, R |-> node.graph, I |-> EmptyGraph,
      phi_L |-> EmptyMorphism, phi_R |-> EmptyMorphism,
      boundary_L |-> node.boundary, boundary_R |-> node.boundary ]

buildStarterRule(ruleId, node) ==
    [ id |-> ruleId, kind |-> "Starter",
      name |-> << "starter_", IF Len(node.graph.faces) = 0 THEN "prim"
                              ELSE node.graph.faces[1].label >>,
      isStarterRule |-> TRUE, extractedAtGeneration |-> 0,
      L |-> node.graph, R |-> EmptyGraph, I |-> EmptyGraph,
      phi_L |-> EmptyMorphism, phi_R |-> EmptyMorphism,
      boundary_L |-> node.boundary, boundary_R |-> << >> ]

\* thetas equal within 1e-3 (or 2 pi apart)
sameTheta(t0, t1) == LET tDiff == Abs(t0 - t1) IN tDiff = 0 \/ tDiff = 4

\* position in R.halfEdges of the first open face-side half-edge, 0 when
\* there is none
firstOpenHalfEdge(R) ==
    minOrZero({ j \in DOMAIN R.halfEdges :
                  R.halfEdges[j].label.r = "open" /\ R.halfEdges[j].face >= 0 })

\* position in L.halfEdges of the first glued face-side half-edge with the
\* theta of the open half-edge, 0 when there is none
firstGluedHalfEdge(L, openTheta) ==
    minOrZero({ j \in DOMAIN L.halfEdges :
                  /\ L.halfEdges[j].label.r = "glued"
                  /\ L.halfEdges[j].face >= 0
                  /\ sameTheta(L.halfEdges[j].label.theta, openTheta) })

\* a phi_L that sends both half-edges of I to the found half-edge
seamMorphismOneSided(L, openTheta) ==
    LET he == firstGluedHalfEdge(L, openTheta)
    IN IF he = 0 THEN EmptyMorphism
       ELSE LET h == L.halfEdges[he]
                lv0 == vertexIdx(L, h.vertex)
            IN IF lv0 # 0
               THEN [ EmptyMorphism EXCEPT
                        !.vertexMap = (0 :> L.vertices[lv0].id) @@ (1 :> L.vertices[lv0].id),
                        !.halfEdgeMap = (0 :> h.id) @@ (1 :> h.id) ]
               ELSE EmptyMorphism

\* phi_L of an expansion rule: the first glued face-side half-edge of L with
\* the theta of the chosen open half-edge of R
seamMorphism(L, openTheta) ==
    LET he == firstGluedHalfEdge(L, openTheta)
    IN IF he = 0 THEN EmptyMorphism
       ELSE LET h == L.halfEdges[he]
                ltwin == halfEdgeIdx(L, h.twin)
                lv0 == vertexIdx(L, h.vertex)
                lv1 == IF ltwin # 0 THEN vertexIdx(L, L.halfEdges[ltwin].vertex) ELSE 0
            IN IF lv0 # 0 /\ lv1 # 0
               THEN [ EmptyMorphism EXCEPT
                        !.vertexMap = (0 :> L.vertices[lv0].id) @@ (1 :> L.vertices[lv1].id),
                        !.halfEdgeMap = (0 :> h.id) @@ (1 :> h.twin) ]
               ELSE EmptyMorphism

buildExpansionRule(ruleId, parentNodeA, childNode) ==
    LET L == childNode.graph
        R == parentNodeA.graph
        base == [ id |-> ruleId, kind |-> "LoopGlue",
                  name |-> << "expand_", parentNodeA.id, "_to_", childNode.id >>,
                  isStarterRule |-> FALSE,
                  extractedAtGeneration |-> childNode.generation,
                  L |-> L, R |-> R, I |-> EmptyGraph,
                  phi_L |-> EmptyMorphism, phi_R |-> EmptyMorphism,
                  boundary_L |-> childNode.boundary,
                  boundary_R |-> parentNodeA.boundary ]
        openHE == firstOpenHalfEdge(R)
    IN IF openHE = 0 THEN base
       ELSE LET oh == R.halfEdges[openHE]
                v0 == vertexIdx(R, oh.vertex)
                twin == halfEdgeIdx(R, oh.twin)
                v1 == IF twin # 0 THEN vertexIdx(R, R.halfEdges[twin].vertex) ELSE 0
            IN IF v0 # 0 /\ v1 # 0
               THEN [ base EXCEPT
                        !.I = buildInterfaceGraph(R.vertices[v0].pos, R.vertices[v1].pos,
                                                  oh.label),
                        !.phi_R = [ EmptyMorphism EXCEPT
                                      !.vertexMap = (0 :> R.vertices[v0].id)
                                                    @@ (1 :> R.vertices[v1].id),
                                      !.halfEdgeMap = (0 :> oh.id) @@ (1 :> oh.twin) ],
                        !.phi_L = seamMorphism(L, oh.label.theta) ]
               ELSE base

\* Step 1: starter rules
RECURSIVE starterRules(_, _, _)
starterRules(hier, i, rules) ==
    IF i > Len(hier) THEN rules
    ELSE LET node == hier[i]
         IN IF node.generation # 0 \/ node.pruned \/ ~node.isComplete
            THEN starterRules(hier, i + 1, rules)
            ELSE starterRules(hier, i + 1,
                              Append(rules, buildStarterRule(nextRuleId(rules), node)))

rulePairKey(rBnd, lBnd) == << toString(rBnd), toString(lBnd) >>

\* the loop over childNode.parentIds: <<rules, seenRulePairs>>
RECURSIVE expandFromParents(_, _, _, _, _)
expandFromParents(hier, child, k, rules, seen) ==
    IF k > Len(child.parentIds) THEN << rules, seen >>
    ELSE LET parentIdx == child.parentIds[k]
         IN IF parentIdx < 0 \/ parentIdx >= Len(hier)
            THEN expandFromParents(hier, child, k + 1, rules, seen)
            ELSE LET parentNode == hier[parentIdx + 1]
                     key == rulePairKey(parentNode.boundary, child.boundary)
                 IN IF parentNode.pruned \/ key \in seen
                    THEN expandFromParents(hier, child, k + 1, rules, seen)
                    ELSE expandFromParents(hier, child, k + 1,
                             Append(rules, buildExpansionRule(nextRuleId(rules),
                                                              parentNode, child)),
                             seen \cup { key })

\* Step 2: expansion rules
\* a Step 2 that also takes children that are not complete
RECURSIVE expansionRulesAnyChild(_, _, _, _)
expansionRulesAnyChild(hier, i, rules, seen) ==
    IF i > Len(hier) THEN rules
    ELSE LET child == hier[i]
         IN IF child.generation = 0 \/ child.pruned
            THEN expansionRulesAnyChild(hier, i + 1, rules, seen)
            ELSE LET r == expandFromParents(hier, child, 1, rules, seen)
                 IN expansionRulesAnyChild(hier, i + 1, r[1], r[2])

RECURSIVE expansionRules(_, _, _, _)
expansionRules(hier, i, rules, seen) ==
    IF i > Len(hier) THEN rules
    ELSE LET child == hier[i]
         IN IF child.generation = 0 \/ child.pruned \/ ~child.isComplete
            THEN expansionRules(hier, i + 1, rules, seen)
            ELSE LET r == expandFromParents(hier, child, 1, rules, seen)
                 IN expansionRules(hier, i + 1, r[1], r[2])

\* nodeIdx is 0-based, as in the code
RECURSIVE hasCompleteDescendant(_, _)
hasCompleteDescendant(nodeIdx, hier) ==
    IF nodeIdx < 0 \/ nodeIdx >= Len(hier) THEN FALSE
    ELSE IF hier[nodeIdx + 1].isComplete THEN TRUE
    ELSE \E i \in 0..(Len(hier) - 1) :
            \E k \in DOMAIN hier[i + 1].parentIds :
               hier[i + 1].parentIds[k] = nodeIdx /\ hasCompleteDescendant(i, hier)

\* a pruning pass that passes the 1-based position as the node index
pruneHierarchyNextNode(hier) ==
    [ i \in DOMAIN hier |->
        IF ~hier[i].pruned /\ ~hasCompleteDescendant(i, hier)
        THEN [ hier[i] EXCEPT !.pruned = TRUE ]
        ELSE hier[i] ]

\* a pruning pass that erases the nodes it prunes
pruneHierarchyErasing(hier) ==
    SelectSeq(hier, LAMBDA node :
        node.pruned \/ hasCompleteDescendant(node.id, hier))

\* Step 3: pruning pass
pruneHierarchy(hier) ==
    [ i \in DOMAIN hier |->
        IF ~hier[i].pruned /\ ~hasCompleteDescendant(i - 1, hier)
        THEN [ hier[i] EXCEPT !.pruned = TRUE ]
        ELSE hier[i] ]

algorithm1_rules(hier) ==
    LET starters == starterRules(hier, 1, << >>)
        seen == { rulePairKey(starters[i].boundary_R, starters[i].boundary_L) :
                    i \in DOMAIN starters }
    IN expansionRules(hier, 1, starters, seen)

\* ------------------------------------------------------------------
\* extractGrammar, as the steps of its loops
\* ------------------------------------------------------------------

\* the hierarchy, pc and loop locals that the build step e leaves
Advance(e) ==
    /\ m_hierarchy' = e.hier
    /\ pc' = e.pc
    /\ tl' = e.tl

\* entry of extractGrammar up to the first gluing candidate of buildHierarchy
ExtractGrammar ==
    /\ pc = "idle"
    /\ m_rules' = << >>
    /\ IF Len(m_primitives) = 0
       THEN /\ m_lastError' = ErrNoPrimitives
            /\ UNCHANGED << m_hierarchy, hierCap, pc, tl, prevRun >>
       ELSE /\ m_lastError' = ""
            /\ Advance(enterGeneration(
                         seedPrimitives(m_primitives, 1, << >>, hierCap)[1],
                         0, m_settings))
            /\ hierCap' = seedPrimitives(m_primitives, 1, << >>, hierCap)[2]
            /\ prevRun' = IF Len(m_hierarchy) # 0 /\ gen0Graphs(m_hierarchy) = m_primitives
                          THEN hierarchySummary(m_hierarchy)
                          ELSE << >>
    /\ UNCHANGED << m_settings, m_primitives, m_result, m_genStep, m_genDone >>
    /\ UNCHANGED auxVars

\* what a read through the references A and B can give once push_back has
\* moved the nodes: the old contents, an empty (moved-from) graph, or a fault
danglingOutcomes == { "stale", "empty", "wild" }

\* the loop bookkeeping after a candidate that changes nothing
SkipCandidate ==
    /\ Advance(afterCandidate(m_hierarchy, tl, m_settings))
    /\ UNCHANGED hierCap

\* the rest of the loop body for the outcome c of the candidate: for an added
\* node seenBoundaries.insert, push_back and ++newNodes, then the loop
\* bookkeeping; r is what the references A and B give from then on
GlueOutcome(c) ==
    IF c.added
    THEN /\ \E r \in IF pushReallocates(Len(m_hierarchy), hierCap)
                     THEN danglingOutcomes ELSE { tl.ref } :
               Advance(afterCandidate(
                         Append(m_hierarchy, c.node),
                         [ tl EXCEPT !.seenBoundaries = @ \cup { c.bsStr },
                                     !.newNodes = @ + 1,
                                     !.ref = r ],
                         m_settings))
         /\ hierCap' = capAfterPush(Len(m_hierarchy), hierCap)
    ELSE SkipCandidate

\* one candidate (heA, heB) of the innermost loop of tryLoopGluings, and the
\* loop bookkeeping up to the next candidate
GlueStep ==
    /\ pc = "glue"
    /\ IF tl.ref = "wild"
       THEN /\ pc' = "crashed"
            /\ UNCHANGED << m_hierarchy, hierCap, tl >>
       ELSE IF tl.ref = "empty"
       THEN SkipCandidate
       ELSE GlueOutcome(tryCandidate(m_hierarchy, tl))
    /\ UNCHANGED << m_settings, m_primitives, m_rules, m_result, m_lastError,
                    m_genStep, m_genDone, prevRun >>
    /\ UNCHANGED auxVars

\* algorithm1_findGrammar, which ends extractGrammar
Algorithm1 ==
    /\ pc = "alg1"
    /\ m_rules' = algorithm1_rules(m_hierarchy)
    /\ m_hierarchy' = pruneHierarchy(m_hierarchy)
    /\ pc' = "idle"
    /\ prevRun' = << >>
    /\ UNCHANGED << m_settings, m_primitives, hierCap, m_result, m_lastError,
                    m_genStep, m_genDone, tl >>
    /\ UNCHANGED auxVars

\* ------------------------------------------------------------------
\* MG-4: generation
\* ------------------------------------------------------------------

\* generation state: [step, done, result]
beginGenerate(gs) == [ step |-> 0, done |-> FALSE, result |-> EmptyResult ]

\* a stepGenerate that stops one call late
stepGenerateLate(gs, settings) ==
    IF gs.done THEN [ gs |-> gs, ret |-> TRUE ]
    ELSE IF gs.step + 1 > settings.maxIterations
         THEN [ gs |-> [ step |-> gs.step + 1, done |-> TRUE,
                         result |-> [ gs.result EXCEPT !.success = FALSE,
                                                       !.errorMsg = ErrMaxIter ] ],
                ret |-> TRUE ]
         ELSE [ gs |-> [ gs EXCEPT !.step = @ + 1 ], ret |-> FALSE ]

\* stepGenerate: [gs, ret]
stepGenerate(gs, settings) ==
    IF gs.done THEN [ gs |-> gs, ret |-> TRUE ]
    ELSE IF gs.step + 1 >= settings.maxIterations
         THEN [ gs |-> [ step |-> gs.step + 1, done |-> TRUE,
                         result |-> [ gs.result EXCEPT !.success = FALSE,
                                                       !.errorMsg = ErrMaxIter ] ],
                ret |-> TRUE ]
         ELSE [ gs |-> [ gs EXCEPT !.step = @ + 1 ], ret |-> FALSE ]

\* the for-loop of generate from iteration i on
RECURSIVE generateLoop(_, _, _)
generateLoop(gs, i, settings) ==
    IF ~(i < settings.maxIterations) THEN gs
    ELSE LET s == stepGenerate(gs, settings)
         IN IF s.ret THEN s.gs ELSE generateLoop(s.gs, i + 1, settings)

genStateOf(step, done, result) == [ step |-> step, done |-> done, result |-> result ]

\* m_result, m_genStep and m_genDone as the generation state gs
SetGenState(gs) ==
    /\ m_result' = gs.result
    /\ m_genStep' = gs.step
    /\ m_genDone' = gs.done

Generate ==
    /\ pc = "idle"
    /\ IF Len(m_rules) = 0
       THEN /\ m_result' = EmptyResult
            /\ m_lastError' = ErrNoRules
            /\ UNCHANGED << m_genStep, m_genDone >>
       ELSE /\ SetGenState(generateLoop(
                   beginGenerate(genStateOf(m_genStep, m_genDone, EmptyResult)),
                   0, m_settings))
            /\ m_lastError' = ""
    /\ UNCHANGED << m_settings, m_primitives, m_hierarchy, hierCap, m_rules, pc, tl, prevRun >>
    /\ UNCHANGED auxVars

BeginGenerate ==
    /\ pc = "idle"
    /\ SetGenState(beginGenerate(genStateOf(m_genStep, m_genDone, m_result)))
    /\ UNCHANGED << m_settings, m_primitives, m_hierarchy, hierCap, m_rules,
                    m_lastError, pc, tl, prevRun >>
    /\ UNCHANGED auxVars

StepGenerate ==
    /\ pc = "idle"
    /\ SetGenState(stepGenerate(genStateOf(m_genStep, m_genDone, m_result),
                                m_settings).gs)
    /\ UNCHANGED << m_settings, m_primitives, m_hierarchy, hierCap, m_rules,
                    m_lastError, pc, tl, prevRun >>
    /\ UNCHANGED auxVars

\* ------------------------------------------------------------------
\* Specification of the controller
\* ------------------------------------------------------------------

vars == << ctrlVars, auxVars >>

\* the controller as its constructor leaves it
CtrlInit ==
    /\ m_primitives = << >>
    /\ m_hierarchy = << >>
    /\ hierCap = 0
    /\ m_rules = << >>
    /\ m_result = EmptyResult
    /\ m_lastError = ""
    /\ m_genStep = 0
    /\ m_genDone = FALSE
    /\ pc = "idle"
    /\ tl = NoLoop
    /\ prevRun = << >>

\* no graph and no boundary string held by a caller
AuxIdle ==
    /\ g = EmptyGraph
    /\ gLog = << >>
    /\ bsA = << >>
    /\ bsB = << >>
    /\ bsRet = << >>
    /\ defs = << >>

Init ==
    /\ m_settings \in SettingsSet
    /\ CtrlInit
    /\ AuxIdle

Next ==
    \/ \E socketDefs \in Vocabularies : LoadFromTiles(socketDefs)
    \/ ExtractGrammar
    \/ GlueStep
    \/ Algorithm1
    \/ Generate
    \/ BeginGenerate
    \/ StepGenerate

Spec == Init /\ [][Next]_vars

\* ------------------------------------------------------------------
\* Graph operations applied to the graphs the pipeline produces
\* ------------------------------------------------------------------

MaxOpsGen == 2
MaxOps == 1

\* the outcome of loopGlue for every candidate tryLoopGluings tries on two
\* graphs of S
glueOutcomes(S) ==
    UNION { UNION { UNION { { loopGlue(A, B, heA, heB) :
                              heB \in { b \in Range(openHalfEdges(B)) :
                                          complementary(heOf(A, heA).label.theta,
                                                        heOf(B, b).label.theta) } } :
                            heA \in Range(openHalfEdges(A)) } : B \in S } : A \in S }

\* every graph tryLoopGluings can build from two graphs of S
glueAll(S) == { r.graph : r \in { x \in glueOutcomes(S) : x.ok } }

\* the graphs of generation n of a hierarchy over TileDefs
RECURSIVE pipelineGen(_)
pipelineGen(n) ==
    IF n = 0 THEN { primitiveTable[def] : def \in TileDefs } ELSE glueAll(pipelineGen(n - 1))

\* the interface graph buildExpansionRule builds for a right-hand side R
interfaceOf(R) ==
    LET node == gluedNode(<< >>, 0, R, << >>, 0, 0)
    IN buildExpansionRule(0, node, node).I

\* the graphs of S and the interface graphs of the rules over them
withInterfaces(S) == S \cup { interfaceOf(R) : R \in S }

\* L and R of a rule are the graphs of hierarchy nodes; I is an interface graph
PipelineGraphs == withInterfaces(UNION { pipelineGen(n) : n \in 0..MaxOpsGen })

MergeVertices(fromId, toId) ==
    /\ Len(gLog) < MaxOps
    /\ g' = mergeVertices(g, fromId, toId)
    /\ gLog' = Append(gLog, "mergeVertices")
    /\ UNCHANGED << ctrlVars, bsA, bsB, bsRet, defs >>

RemoveHalfEdgePair(heId) ==
    /\ Len(gLog) < MaxOps
    /\ g' = removeHalfEdgePair(g, heId)
    /\ gLog' = Append(gLog, "removeHalfEdgePair")
    /\ UNCHANGED << ctrlVars, bsA, bsB, bsRet, defs >>

OpsSettings == [ maxIterations |-> 0, maxHierarchyGen |-> 0, maxRules |-> 0 ]

InitOps ==
    /\ m_settings = OpsSettings
    /\ CtrlInit
    /\ g \in PipelineGraphs
    /\ gLog = << >>
    /\ bsA = << >>
    /\ bsB = << >>
    /\ bsRet = << >>
    /\ defs = << >>

NextOps ==
    \/ \E fromId, toId \in { g.vertices[i].id : i \in DOMAIN g.vertices } :
          MergeVertices(fromId, toId)
    \/ \E heId \in Range(heIdsOf(g)) : RemoveHalfEdgePair(heId)

SpecOps == InitOps /\ [][NextOps]_vars

\* ------------------------------------------------------------------
\* BoundaryString operations on bounded strings
\* ------------------------------------------------------------------

MaxBsLen == 3
MaxEdgeId == 1

\* the elements a bounded boundary string is made of
BsElements ==
    { EdgeElem(id, r) : id \in 0..MaxEdgeId, r \in { "open", "exterior" } }
    \cup { TurnElem("Positive"), TurnElem("Negative") }

BoundaryStrings == SeqsUpTo(BsElements, MaxBsLen)

IsCircularlyEqual ==
    /\ bsRet = << >>
    /\ bsRet' = << isCircularlyEqual(bsA, bsB) >>
    /\ UNCHANGED << ctrlVars, g, gLog, bsA, bsB, defs >>

InitBS ==
    /\ m_settings = OpsSettings
    /\ CtrlInit
    /\ g = EmptyGraph
    /\ gLog = << >>
    /\ bsA \in BoundaryStrings
    /\ bsB \in BoundaryStrings
    /\ bsRet = << >>
    /\ defs = << >>

NextBS == IsCircularlyEqual

SpecBS == InitBS /\ [][NextBS]_vars

\* ------------------------------------------------------------------
\* cancelTurns on bounded strings of turns and edges
\* ------------------------------------------------------------------

MaxCancelLen == 6

\* the strings cancelTurns is applied to: two edges and the two turns
CancelStrings ==
    SeqsUpTo({ EdgeElem(0, "open"), EdgeElem(1, "open"),
               TurnElem("Positive"), TurnElem("Negative") }, MaxCancelLen)

\* bsA.cancelTurns(): the string is rewritten in place
CancelTurns ==
    /\ bsA' = cancelTurns(bsA)
    /\ UNCHANGED << ctrlVars, g, gLog, bsB, bsRet, defs >>

\* the caller holds a string bsA and a copy bsB of it
InitCancel ==
    /\ m_settings = OpsSettings
    /\ CtrlInit
    /\ g = EmptyGraph
    /\ gLog = << >>
    /\ bsB \in CancelStrings
    /\ bsA = bsB
    /\ bsRet = << >>
    /\ defs = << >>

NextCancel == CancelTurns

SpecCancel == InitCancel /\ [][NextCancel]_vars

\* ------------------------------------------------------------------
\* loadFromTiles on socket definitions over the four grid directions
\* ------------------------------------------------------------------

InitTiles ==
    /\ m_settings = OpsSettings
    /\ CtrlInit
    /\ g = EmptyGraph
    /\ gLog = << >>
    /\ bsA = << >>
    /\ bsB = << >>
    /\ bsRet = << >>
    /\ defs \in SeqsUpTo(LayoutDefs, MaxTiles)

NextTiles == LoadFromTiles(defs)

SpecTiles == InitTiles /\ [][NextTiles]_vars

\* ------------------------------------------------------------------
\* Properties
\* ------------------------------------------------------------------

\* C1: in every graph the pipeline produces (primitive, glued graph, rule
\* graph), also after mergeVertices or removeHalfEdgePair has been applied to
\* it, a half-edge h with twin # -1 has a twin that exists and whose own twin
\* is h.
C1_TwinSymmetry ==
    \A i \in DOMAIN g.halfEdges :
        LET h == g.halfEdges[i]
        IN h.twin # -1 =>
             LET t == halfEdgeIdx(g, h.twin)
             IN t # 0 /\ g.halfEdges[t].twin = h.id

\* a glued graph of two faces from which a seam pair has been removed
C1_GluedAfterRemove ==
    /\ gLog = << "removeHalfEdgePair" >>
    /\ faceCount(g) = 2
    /\ edgeCount(g) = 7

\* C2: a graph loop-glued from two primitives has
\* vertexCount(A) + vertexCount(B) - 2 = 6 vertices.
C2_GlueVertexCount ==
    \A i \in DOMAIN m_hierarchy :
        LET n == m_hierarchy[i]
        IN n.generation = 1 =>
             LET A == m_hierarchy[n.parentIds[1] + 1].graph
                 B == m_hierarchy[n.parentIds[2] + 1].graph
             IN /\ vertexCount(A) = 4
                /\ vertexCount(B) = 4
                /\ vertexCount(n.graph) = vertexCount(A) + vertexCount(B) - 2

\* a node glued from an HStraight and a CornerBR primitive
C2_MixedGlue ==
    \E i \in DOMAIN m_hierarchy :
        /\ m_hierarchy[i].generation = 1
        /\ m_hierarchy[i].parentIds = << 0, 1 >>
        /\ m_hierarchy[1].graph.faces[1].label # m_hierarchy[2].graph.faces[1].label

\* C3: a graph loop-glued from two primitives has
\* edgeCount(A) + edgeCount(B) - 1 = 7 edges.
C3_GlueEdgeCount ==
    \A i \in DOMAIN m_hierarchy :
        LET n == m_hierarchy[i]
        IN n.generation = 1 =>
             edgeCount(n.graph) = edgeCount(m_hierarchy[n.parentIds[1] + 1].graph)
                                  + edgeCount(m_hierarchy[n.parentIds[2] + 1].graph) - 1

\* C4: in every hierarchy graph, at every generation, the vertex ids, the
\* half-edge ids and the face ids are each pairwise distinct.
C4_DistinctIds ==
    \A i \in DOMAIN m_hierarchy :
        LET G == m_hierarchy[i].graph
        IN /\ \A a, b \in DOMAIN G.vertices :
                 G.vertices[a].id = G.vertices[b].id => a = b
           /\ \A a, b \in DOMAIN G.halfEdges :
                 G.halfEdges[a].id = G.halfEdges[b].id => a = b
           /\ \A a, b \in DOMAIN G.faces :
                 G.faces[a].id = G.faces[b].id => a = b

\* C5: a glued graph becomes a hierarchy node only if its canonical boundary
\* string differs from that of every node already in the hierarchy, so no
\* node of generation >= 1 has the toString() of another node.
C5_HierarchyDedup ==
    \A i, j \in DOMAIN m_hierarchy :
        (i # j /\ m_hierarchy[i].generation >= 1) =>
            toString(m_hierarchy[i].boundary) # toString(m_hierarchy[j].boundary)

\* over two equal primitives the pair (0, 1) has been glued, and a candidate
\* of that pair whose result has the boundary string of a node glued from
\* the pair (0, 0) has left no node
C5_DuplicateRejected ==
    /\ Len(m_primitives) = 2
    /\ m_primitives[1] = m_primitives[2]
    /\ \E i, j \in DOMAIN m_hierarchy :
          /\ m_hierarchy[i].parentIds = << 0, 0 >>
          /\ m_hierarchy[j].parentIds = << 0, 1 >>
          /\ \E heA \in Range(openHalfEdges(m_primitives[1])),
                heB \in Range(openHalfEdges(m_primitives[2])) :
                LET r == loopGlue(m_primitives[1], m_primitives[2], heA, heB)
                IN /\ r.ok
                   /\ toString(resultBoundary(r.graph)) = toString(m_hierarchy[i].boundary)
                   /\ \A k \in DOMAIN m_hierarchy :
                         m_hierarchy[k].parentIds = << 0, 1 >> =>
                            toString(m_hierarchy[k].boundary)
                               # toString(m_hierarchy[i].boundary)

\* C6 as stated: isCircularlyEqual returns true exactly when the strings have
\* the same length and some rotation of one matches the other with equal
\* turn type at every turn and equal edge label at every edge.
C6_RotationByLabel ==
    bsRet # << >> =>
        bsRet[1] = ( /\ Len(bsA) = Len(bsB)
                     /\ \E offset \in 0..Len(bsA) :
                           \A i \in 1..Len(bsA) :
                              LET a == bsA[((i - 1 + offset) % Len(bsA)) + 1]
                                  b == bsB[i]
                              IN /\ a.is_turn = b.is_turn
                                 /\ a.is_turn => a.turn_type = b.turn_type
                                 /\ ~a.is_turn => a.edge_label = b.edge_label )

\* C6: isCircularlyEqual returns true exactly when the strings have the same
\* length and some rotation of one matches the other with equal turn type at
\* every turn and equal edge id at every edge; labels are not compared.
C6_RotationById ==
    bsRet # << >> =>
        bsRet[1] = ( /\ Len(bsA) = Len(bsB)
                     /\ \E offset \in 0..Len(bsA) :
                           \A i \in 1..Len(bsA) :
                              LET a == bsA[((i - 1 + offset) % Len(bsA)) + 1]
                                  b == bsB[i]
                              IN /\ a.is_turn = b.is_turn
                                 /\ a.is_turn => a.turn_type = b.turn_type
                                 /\ ~a.is_turn => a.edge_id = b.edge_id )

\* two different strings of full length found equal although an edge of the
\* first carries a label no edge of the second carries
C6_EqualIdsOtherLabels ==
    /\ bsRet = << TRUE >>
    /\ Len(bsA) = MaxBsLen
    /\ bsA # bsB
    /\ \E i \in DOMAIN bsA :
          /\ ~bsA[i].is_turn
          /\ \A j \in DOMAIN bsB :
                ~bsB[j].is_turn => bsB[j].edge_label # bsA[i].edge_label

\* C7: a gluing attempt on two open half-edges whose thetas are not
\* complementary (they do not differ by pi) adds no hierarchy node and leaves
\* the graphs of the hierarchy, the two inputs among them, as they were.
C7_NonComplementaryFails ==
    [][ ( /\ pc = "glue"
          /\ LET A == m_hierarchy[tl.genNodes[tl.pa] + 1].graph
                 B == m_hierarchy[tl.genNodes[tl.pb] + 1].graph
                 thA == A.halfEdges[halfEdgeIdx(A, tl.openA[tl.ia])].label.theta
                 thB == B.halfEdges[halfEdgeIdx(B, tl.openB[tl.ib])].label.theta
             IN (thA - thB) % 4 # 2 )
        => m_hierarchy' = m_hierarchy ]_vars

\* the candidate before the current one paired open half-edges a quarter-turn
\* apart, and the generation under construction has no node
C7_QuarterTurnTried ==
    /\ pc = "glue"
    /\ tl.ia = 2
    /\ tl.ib = 1
    /\ LET A == m_hierarchy[tl.genNodes[tl.pa] + 1].graph
           B == m_hierarchy[tl.genNodes[tl.pb] + 1].graph
           thA == A.halfEdges[halfEdgeIdx(A, tl.openA[1])].label.theta
           thB == B.halfEdges[halfEdgeIdx(B, tl.openB[Len(tl.openB)])].label.theta
       IN (thA - thB) % 2 = 1
    /\ \A i \in DOMAIN m_hierarchy : m_hierarchy[i].generation = 0

\* C8: a second extractGrammar() over the same primitives and settings builds
\* the hierarchy the first one built: same ids, generations, parentIds and
\* canonical boundary strings, node by node.
C8_SameHierarchy ==
    (pc = "alg1" /\ prevRun # << >>) => hierarchySummary(m_hierarchy) = prevRun

\* C9: loadFromTiles with an empty vocabulary, extractGrammar without
\* primitives and generate without rules set lastError, produce nothing and
\* leave the output of their phase empty; a successful call of the same kind
\* clears lastError.
C9_ConfigErrors ==
    [][ /\ LoadFromTiles(<< >>) =>
             /\ m_lastError' # ""
             /\ m_primitives' = << >>
             /\ UNCHANGED << m_hierarchy, m_rules, m_result, m_genStep, m_genDone, pc >>
        /\ (ExtractGrammar /\ Len(m_primitives) = 0) =>
             /\ m_lastError' # ""
             /\ m_rules' = << >>
             /\ UNCHANGED << m_primitives, m_hierarchy, m_result, m_genStep, m_genDone, pc >>
        /\ (Generate /\ Len(m_rules) = 0) =>
             /\ m_lastError' # ""
             /\ m_result' = EmptyResult
             /\ UNCHANGED << m_primitives, m_hierarchy, m_rules, m_genStep, m_genDone, pc >>
        /\ (\E socketDefs \in Vocabularies \ { << >> } : LoadFromTiles(socketDefs)) =>
             m_lastError' = ""
        /\ (ExtractGrammar /\ Len(m_primitives) # 0) => m_lastError' = ""
        /\ (Generate /\ Len(m_rules) # 0) => m_lastError' = ""
      ]_vars

\* generate() has failed for want of rules on a controller that holds
\* primitives and the hierarchy of an earlier extraction
C9_GenerateWithoutRules ==
    /\ m_lastError = ErrNoRules
    /\ Len(m_primitives) # 0
    /\ Len(m_hierarchy) # 0
    /\ m_rules = << >>
    /\ m_result = EmptyResult

\* C10: for every maxIterations >= 0 and a non-empty rule set, generate()
\* returns with result().success set or with a non-empty result().errorMsg.
C10_ExhaustionReported ==
    [][ (Generate /\ Len(m_rules) # 0) =>
            (m_result'.success \/ m_result'.errorMsg # "") ]_vars

\* ------------------------------------------------------------------
\* Rule extraction (Algorithm 1)
\* ------------------------------------------------------------------

\* C11: after extractGrammar no two rules of rules(), starter or expansion,
\* have the same pair (boundary_R.toString(), boundary_L.toString()).
C11_DistinctRulePairs ==
    pc = "idle" =>
        \A i, j \in DOMAIN m_rules :
            i # j => rulePairKey(m_rules[i].boundary_R, m_rules[i].boundary_L)
                     # rulePairKey(m_rules[j].boundary_R, m_rules[j].boundary_L)

\* C12: rules() is in emission order: every starter rule precedes every
\* expansion rule; the starters follow the index order of their gen-0
\* nodes; the expansion rules follow the index order of their child nodes
\* and, for one child, the first-listed parent comes before the second;
\* the id of each rule is its position, counted from 0.
C12_EmissionOrder ==
    pc = "idle" =>
        LET n == Len(m_rules)
            gen0 == genNodesOf(m_hierarchy, 0)
            starters == { i \in 1..n : m_rules[i].isStarterRule }
            expansions == (1..n) \ starters
            parentOf(i) == m_rules[i].name[2]
            childOf(i) == m_rules[i].name[4]
            parentPos(i) == minOrZero({ k \in DOMAIN m_hierarchy[childOf(i) + 1].parentIds :
                                          m_hierarchy[childOf(i) + 1].parentIds[k] = parentOf(i) })
        IN /\ \A i \in 1..n : m_rules[i].id = i - 1
           /\ \A i \in expansions, j \in starters : j < i
           /\ \A i \in starters :
                 /\ i <= Len(gen0)
                 /\ m_rules[i].L = m_hierarchy[gen0[i] + 1].graph
           /\ \A i, j \in expansions :
                 i < j => \/ childOf(i) < childOf(j)
                          \/ /\ childOf(i) = childOf(j)
                             /\ parentPos(i) # 0
                             /\ parentPos(i) < parentPos(j)

\* two starters, then the two expansion rules of one child
C12_BothParentsEmitted ==
    /\ pc = "idle"
    /\ Cardinality({ i \in DOMAIN m_rules : m_rules[i].isStarterRule }) >= 2
    /\ \E i, j \in DOMAIN m_rules :
          /\ i < j
          /\ ~m_rules[i].isStarterRule
          /\ ~m_rules[j].isStarterRule
          /\ m_rules[i].name[4] = m_rules[j].name[4]

\* the positions of the nodes from which a node of S is reached over at most
\* n parent-to-child edges
RECURSIVE ancestorsWithin(_, _, _)
ancestorsWithin(hier, S, n) ==
    IF n = 0 THEN S
    ELSE ancestorsWithin(hier,
                         S \cup { i \in DOMAIN hier :
                                    \E j \in S : \E k \in DOMAIN hier[j].parentIds :
                                       hier[j].parentIds[k] = i - 1 },
                         n - 1)

\* C13: when extractGrammar ends, a node is pruned iff neither it nor any
\* node reached from it over parent-to-child edges, transitively, has
\* isComplete; the pruned nodes stay in the hierarchy, which keeps its
\* length and every other field of every node.
C13_PrunedIffNoCompleteDescendant ==
    [][ (pc = "alg1" /\ pc' = "idle") =>
          LET keep == ancestorsWithin(m_hierarchy',
                                      { i \in DOMAIN m_hierarchy' : m_hierarchy'[i].isComplete },
                                      Len(m_hierarchy'))
          IN /\ Len(m_hierarchy') = Len(m_hierarchy)
             /\ \A i \in DOMAIN m_hierarchy' :
                   /\ m_hierarchy'[i].pruned <=> i \notin keep
                   /\ [ m_hierarchy'[i] EXCEPT !.pruned = FALSE ] = m_hierarchy[i] ]_vars

\* extractGrammar has ended with a pruned node next to nodes it kept
C13_SomePruned ==
    /\ pc = "idle"
    /\ \E i, j \in DOMAIN m_hierarchy : m_hierarchy[i].pruned /\ ~m_hierarchy[j].pruned

\* C14: no rule of rules() is built from a node that the pruning pass of the
\* same extractGrammar marks pruned: neither the child (L) nor the parent
\* (R) of an expansion rule is pruned, and no starter comes from a pruned
\* gen-0 node.
C14_NoRuleFromPrunedNode ==
    pc = "idle" =>
        LET gen0 == genNodesOf(m_hierarchy, 0)
        IN \A i \in DOMAIN m_rules :
              IF m_rules[i].isStarterRule
              THEN \A k \in DOMAIN gen0 :
                      m_hierarchy[gen0[k] + 1].graph = m_rules[i].L
                          => ~m_hierarchy[gen0[k] + 1].pruned
              ELSE /\ ~m_hierarchy[m_rules[i].name[2] + 1].pruned
                   /\ ~m_hierarchy[m_rules[i].name[4] + 1].pruned

\* expansion rules were emitted and the pruning pass then pruned a node
C14_RulesAndPrunedNode ==
    /\ pc = "idle"
    /\ \E i \in DOMAIN m_rules : ~m_rules[i].isStarterRule
    /\ \E i \in DOMAIN m_hierarchy : m_hierarchy[i].pruned

C16_PrimitiveShape ==
    [][ /\ Len(m_primitives') = Len(defs)
        /\ \A k \in DOMAIN m_primitives' :
              LET P == m_primitives'[k]
                  opens == { h \in DOMAIN P.halfEdges : P.halfEdges[h].label.r = "open" }
                  faceSide == { h \in DOMAIN P.halfEdges : P.halfEdges[h].face # -1 }
              IN /\ faceCount(P) = 1
                 /\ vertexCount(P) = 4
                 /\ edgeCount(P) = 4
                 /\ P.faces[1].label = defs[k].label
                 /\ Cardinality(opens) = Cardinality(Range(defs[k].sockets))
                 /\ opens \subseteq faceSide
                 /\ Cardinality(faceSide) = 4
                 /\ \A h \in faceSide \ opens : P.halfEdges[h].label.r = "exterior" ]_vars

\* two primitives were built: the first with all four sides open, the
\* second from a definition that lists one direction twice
C16_FourSocketsAndRepeat ==
    /\ Len(m_primitives) = 2
    /\ Len(openHalfEdges(m_primitives[1])) = 4
    /\ Len(defs[2].sockets) = 2
    /\ Len(openHalfEdges(m_primitives[2])) = 1

\* the hierarchy was built from the vocabulary << HStraight, CornerBR >>
fromStraightAndCorner ==
    gen0Graphs(m_hierarchy) = << primitiveTable[HStraight], primitiveTable[CornerBR] >>

RECURSIVE nextWalk(_, _, _)
nextWalk(G, id, k) ==
    IF k = 0 \/ halfEdgeIdx(G, id) = 0 THEN << >>
    ELSE << id >> \o nextWalk(G, heOf(G, id).next, k - 1)

\* face f of G: its loop closes after exactly degree steps, on its own
\* half-edges
faceLoopClosed(G, f) ==
    LET walk == nextWalk(G, f.start_he, f.degree)
    IN /\ Len(walk) = f.degree
       /\ f.degree > 0
       /\ heOf(G, walk[Len(walk)]).next = f.start_he
       /\ \A k \in 2..Len(walk) : walk[k] # f.start_he
       /\ \A k \in DOMAIN walk : heOf(G, walk[k]).face = f.id

\* C18: in every graph a hierarchy node holds, for every face f with
\* start_he # -1, following next from f.start_he comes back to f.start_he
\* after exactly f.degree steps and every half-edge on the way has
\* face = f.id.
C18_FaceLoopsClosed ==
    \A i \in DOMAIN m_hierarchy :
        \A f \in DOMAIN m_hierarchy[i].graph.faces :
            m_hierarchy[i].graph.faces[f].start_he # -1
                => faceLoopClosed(m_hierarchy[i].graph, m_hierarchy[i].graph.faces[f])

\* C19 as stated: every hierarchy node with isComplete = true has no
\* half-edge labelled r = open in its graph.
C19_CompleteHasNoOpen ==
    \A i \in DOMAIN m_hierarchy :
        m_hierarchy[i].isComplete => openHalfEdges(m_hierarchy[i].graph) = << >>

\* C19 as amended: a hierarchy node has isComplete = true exactly when the
\* turns of its cached boundary sum to +4 or -4; its graph may still hold
\* half-edges labelled r = open.
C19_CompleteIffFourTurns ==
    \A i \in DOMAIN m_hierarchy :
        m_hierarchy[i].isComplete <=> Abs(totalTurnCount(m_hierarchy[i].boundary)) = 4

\* a complete glued node that still has open half-edges, next to a glued
\* node that is not complete
C19_CompleteWithOpenEdges ==
    \E i, j \in DOMAIN m_hierarchy :
        /\ m_hierarchy[i].generation > 0
        /\ m_hierarchy[i].isComplete
        /\ openHalfEdges(m_hierarchy[i].graph) # << >>
        /\ m_hierarchy[j].generation > 0
        /\ ~m_hierarchy[j].isComplete

\* C20: when extractGrammar ends, for every starter rule boundaryOf(face)
\* of the rule's L graph has the toString() of boundaryOf(face) of the
\* primitive the rule was built from, and that string is the toString()
\* of the rule's cached boundary_L.
C20_StarterRoundTrip ==
    [][ (pc = "alg1" /\ pc' = "idle") =>
          LET starters == SelectSeq(m_rules', LAMBDA r : r.isStarterRule)
          IN \A k \in DOMAIN starters :
                LET L == starters[k].L
                    prim == m_primitives[k]
                    ofL == toString(boundaryOf(L, L.faces[1].id))
                IN /\ k <= Len(m_primitives)
                   /\ Len(ofL) > 0
                   /\ ofL = toString(boundaryOf(prim, prim.faces[1].id))
                   /\ ofL = toString(starters[k].boundary_L) ]_vars

\* extractGrammar has ended with the starters of a straight and a corner
C20_StartersOfBothShapes ==
    /\ pc = "idle"
    /\ \E i, j \in DOMAIN m_rules :
          /\ m_rules[i].isStarterRule
          /\ m_rules[j].isStarterRule
          /\ toString(m_rules[i].boundary_L) # toString(m_rules[j].boundary_L)

\* ------------------------------------------------------------------
\* Shape of the hierarchy
\* ------------------------------------------------------------------

\* C21: in every generation the gluing pass adds at most maxRules new
\* hierarchy nodes, for every vocabulary and every maxRules >= 0.
C21_PerGenerationCap ==
    \A gen \in 1..MaxGen :
        Len(genNodesOf(m_hierarchy, gen)) <= m_settings.maxRules

\* C22: each node's id is its index; generation-0 nodes have no parents;
\* every node of generation g >= 1 has exactly two parentIds, both indices
\* of earlier nodes of generation g - 1; no generation exceeds
\* maxHierarchyGen; a non-empty generation g + 1 has a non-empty
\* generation g below it.
C22_GenerationStructure ==
    \A i \in DOMAIN m_hierarchy :
        LET node == m_hierarchy[i]
        IN /\ node.id = i - 1
           /\ node.generation \in 0..m_settings.maxHierarchyGen
           /\ node.generation = 0 => node.parentIds = << >>
           /\ node.generation >= 1 =>
                 /\ Len(node.parentIds) = 2
                 /\ \A k \in 1..2 :
                       /\ node.parentIds[k] \in 0..(i - 2)
                       /\ m_hierarchy[node.parentIds[k] + 1].generation = node.generation - 1
                 /\ \E j \in DOMAIN m_hierarchy :
                       m_hierarchy[j].generation = node.generation - 1

\* buildHierarchy has ended with three generations, one node glued from two
\* different parents
C22_ThreeGenerations ==
    /\ pc = "alg1"
    /\ \E i, j \in DOMAIN m_hierarchy :
          /\ m_hierarchy[i].generation = 2
          /\ m_hierarchy[j].generation = 1
          /\ m_hierarchy[j].parentIds[1] # m_hierarchy[j].parentIds[2]

\* ------------------------------------------------------------------
\* The seam of a loop gluing
\* ------------------------------------------------------------------

\* the candidate of the running tryLoopGluings call: A, B, the open
\* half-edges heA and heB it is positioned on
glueCandidate ==
    [ A |-> m_hierarchy[tl.genNodes[tl.pa] + 1].graph,
      B |-> m_hierarchy[tl.genNodes[tl.pb] + 1].graph,
      heA |-> tl.openA[tl.ia], heB |-> tl.openB[tl.ib] ]

\* the candidate passes the complementarity test, so that loopGlue is called
glueCalled ==
    /\ pc = "glue"
    /\ tl.ref \in { "valid", "stale" }
    /\ halfEdgeIdx(glueCandidate.A, glueCandidate.heA) # 0
    /\ halfEdgeIdx(glueCandidate.B, glueCandidate.heB) # 0
    /\ complementary(heOf(glueCandidate.A, glueCandidate.heA).label.theta,
                     heOf(glueCandidate.B, glueCandidate.heB).label.theta)

\* R is A glued to B along a (heA) and b (heB after the offset); at and bt
\* are the former exterior twins of a and b
seamInternalized(R, a, b, at, bt, opensBefore) ==
    /\ \A id \in { a, b, at, bt } : halfEdgeIdx(R, id) # 0
    /\ heOf(R, a).twin = b
    /\ heOf(R, b).twin = a
    /\ heOf(R, at).twin = bt
    /\ heOf(R, bt).twin = at
    /\ \A id \in { a, b, at, bt } :
          /\ heOf(R, id).label.r = "glued"
          /\ heOf(R, id).face >= 0
          /\ ~isBoundaryHE(R, id)
    /\ Len(openHalfEdges(R)) = opensBefore - 2

C24_InterfaceMapsToSeam ==
    pc = "idle" =>
        \A i \in DOMAIN m_rules :
            ~m_rules[i].isStarterRule =>
                LET r == m_rules[i]
                    P == r.name[2]
                    C == m_hierarchy[r.name[4] + 1]
                    off == Len(m_hierarchy[C.parentIds[1] + 1].graph.halfEdges)
                IN /\ DOMAIN r.phi_R.halfEdgeMap = { 0, 1 }
                   /\ DOMAIN r.phi_R.vertexMap = { 0, 1 }
                   /\ DOMAIN r.phi_L.halfEdgeMap = { 0, 1 }
                   /\ DOMAIN r.phi_L.vertexMap = { 0, 1 }
                   /\ \E k \in 1..2 :
                         /\ C.parentIds[k] = P
                         /\ LET inL == r.phi_R.halfEdgeMap[0] + (IF k = 1 THEN 0 ELSE off)
                            IN /\ r.phi_L.halfEdgeMap[0] = inL
                               /\ heOf(r.L, inL).label.r = "glued"

edgesOf(bs) == SelectSeq(bs, LAMBDA e : ~e.is_turn)

\* no two cyclically adjacent elements of r are turns of opposite type
noOppositeNeighbours(r) ==
    Len(r) >= 2 => \A i \in 1..Len(r) : ~oppositeTurns(r[i], r[(i % Len(r)) + 1])

\* what C26 says of cancelTurns applied to the string s
cancelsWell(s) ==
    LET r == cancelTurns(s)
    IN /\ noOppositeNeighbours(r)
       /\ edgesOf(r) = edgesOf(s)
       /\ Len(r) <= Len(s)
       /\ totalTurnCount(r) = totalTurnCount(s)
       /\ cancelTurns(r) = r
       /\ \A k \in 0..Len(s) :
             \E j \in 0..Len(r) : cancelTurns(rotated(s, k)) = rotated(r, j)

\* C26: cancelTurns ends at a fixpoint in which no two cyclically adjacent
\* elements, the last/first pair included, are turns of opposite type; it
\* removes only turn elements, leaves totalTurnCount() and the order of the
\* edge elements unchanged, is idempotent, and applied to any rotation of a
\* string gives a rotation of what it gives for the string itself.
C26_CancelTurnsConfluent ==
    /\ bsA # bsB => bsA = cancelTurns(bsB)
    /\ cancelsWell(bsB)
    /\ cancelsWell(bsA)

\* cancelTurns has rewritten a string of six elements whose last and first
\* elements cancel across the wrap point, and more than one pair went
C26_WrapAndInnerPairCancelled ==
    /\ Len(bsB) = 6
    /\ oppositeTurns(bsB[6], bsB[1])
    /\ edgesOf(bsB) # << >>
    /\ bsA # bsB
    /\ Len(bsA) = 2

\* ------------------------------------------------------------------
\* Cached outgoing half-edges
\* ------------------------------------------------------------------

\* every vertex of G caches no half-edge or one of G that starts at it
outgoingValid(G) ==
    \A i \in DOMAIN G.vertices :
       \/ G.vertices[i].outgoing_he = -1
       \/ \E j \in DOMAIN G.halfEdges :
             /\ G.halfEdges[j].id = G.vertices[i].outgoing_he
             /\ G.halfEdges[j].vertex = G.vertices[i].id

\* C27: after linkFaceLoop, mergeVertices, removeHalfEdgePair and loopGlue
\* every vertex still in the graph has outgoing_he either -1 or the id of a
\* half-edge that exists in the graph and starts at that vertex.
C27_OutgoingValid == outgoingValid(g)

\* ------------------------------------------------------------------
\* Step-driven generation
\* ------------------------------------------------------------------

\* what a call of stepGenerate in the current state returns and leaves
stepNow == stepGenerate(genStateOf(m_genStep, m_genDone, m_result), m_settings)

\* C28: with maxIterations = N >= 1, beginGenerate resets the step state and
\* result(); the k-th stepGenerate after it returns false for k < N and true
\* for k = N, so the step loop ends after N calls; once stepGenerate has
\* returned true a further call returns true and changes neither result()
\* nor the step counter; and generate() makes at most maxIterations calls of
\* stepGenerate.
C28_StepProtocol ==
    [][ /\ Generate /\ Len(m_rules) > 0 => m_genStep' <= m_settings.maxIterations
        /\ m_settings.maxIterations >= 1 =>
              /\ BeginGenerate =>
                    m_genStep' = 0 /\ ~m_genDone' /\ m_result' = EmptyResult
              /\ StepGenerate =>
                    /\ ~m_genDone
                    /\ m_genStep' = m_genStep + 1
                    /\ m_genStep' <= m_settings.maxIterations
                    /\ stepNow.ret = (m_genStep' = m_settings.maxIterations)
                    /\ m_genDone' = stepNow.ret
                    /\ ~stepNow.ret => m_result' = m_result
              /\ m_genDone =>
                    /\ stepNow.ret
                    /\ stepNow.gs = genStateOf(m_genStep, m_genDone, m_result)
              /\ m_genDone' =>
                    /\ m_genStep' = m_settings.maxIterations
                    /\ m_result'.errorMsg \in { ErrMaxIter, "" } ]_vars

\* a step loop of two calls has ended on a controller that has no rules, so
\* the calls were made by the caller and not by generate()
C28_StepLoopFinished ==
    /\ m_settings.maxIterations = 2
    /\ m_rules = << >>
    /\ m_genStep = 2
    /\ m_genDone
    /\ m_result.errorMsg = ErrMaxIter

\* ------------------------------------------------------------------
\* What each phase leaves alone
\* ------------------------------------------------------------------

\* node b is node a, but for a pruned flag that may have gone from false to true
sameButPruned(a, b) ==
    /\ [ b EXCEPT !.pruned = a.pruned ] = a
    /\ a.pruned => b.pruned

\* C29: the rule-emission and pruning passes of extractGrammar add and remove
\* no hierarchy node and change no node's graph, cached boundary, isComplete,
\* generation or parentIds, only pruned flags may go from false to true;
\* extractGrammar, generate, beginGenerate and stepGenerate leave primitives()
\* unchanged, and generation leaves hierarchy() and rules() unchanged.
C29_PhaseFrames ==
    [][ /\ Algorithm1 =>
              /\ Len(m_hierarchy') = Len(m_hierarchy)
              /\ \A i \in DOMAIN m_hierarchy :
                    sameButPruned(m_hierarchy[i], m_hierarchy'[i])
        /\ (ExtractGrammar \/ GlueStep \/ Algorithm1) => m_primitives' = m_primitives
        /\ (Generate \/ BeginGenerate \/ StepGenerate) =>
              /\ m_primitives' = m_primitives
              /\ m_hierarchy' = m_hierarchy
              /\ m_rules' = m_rules ]_vars

\* an extraction has pruned a node and kept another of a later generation,
\* and a generation has run on its rules
C29_PrunedAndGenerated ==
    /\ pc = "idle"
    /\ \E i \in DOMAIN m_hierarchy : m_hierarchy[i].pruned
    /\ \E i \in DOMAIN m_hierarchy :
          ~m_hierarchy[i].pruned /\ m_hierarchy[i].generation >= 1
    /\ Len(m_rules) > 0
    /\ m_genDone
    /\ m_result.errorMsg = ErrMaxIter

\* ------------------------------------------------------------------
\* Consistency of the three phases
\* ------------------------------------------------------------------

\* C30: between calls of loadFromTiles, extractGrammar and generate, a
\* non-empty hierarchy() has exactly the current primitives() as its
\* generation-0 graphs, in order; the starter rules of a non-empty rules()
\* have current primitives as their L graphs; and hierarchy() and rules()
\* are empty when primitives() is empty.
C30_CrossPhaseConsistency ==
    pc = "idle" =>
       /\ m_hierarchy # << >> => gen0Graphs(m_hierarchy) = m_primitives
       /\ \A k \in DOMAIN m_rules :
             m_rules[k].isStarterRule =>
                \E i \in DOMAIN m_primitives : m_primitives[i] = m_rules[k].L
       /\ m_primitives = << >> => m_hierarchy = << >> /\ m_rules = << >>

====
